---- MODULE Spec2Model ----
(***************************************************************************)
(* A model of the DRMD generator: the D-SI unit converter, the XML codec,  *)
(* the validator and the document state machine of App.tsx.                *)
(*                                                                         *)
(* A JavaScript string is a sequence of characters, each character a       *)
(* one-element token ("g", "/", " ", "\\").  The non-ASCII characters of   *)
(* the unit table are named tokens: "micro" (U+00B5), "mu" (U+03BC),       *)
(* "deg" (U+00B0), "sup1" "sup2" "sup3" (superscript digits) and           *)
(* "supminus" (U+207B).  null / undefined is the one-token sequence NULL.  *)
(***************************************************************************)
EXTENDS Integers, Sequences, FiniteSets, TLC

VARIABLES
  cvVersion,   \* the version of the converter that is called
  cvValue,     \* the value argument
  cvUnit,      \* the unit argument
  cvPhase,     \* "input", "converted", "reconverted"
  cvOut,       \* r = convertToDSI(cvValue, cvUnit)
  cvOut2       \* convertToDSI(r.dsiValue, r.dsiUnit)

VARIABLES
  drmdData,      \* the document
  geminiApiKey,  \* the API key of the settings tab
  pdfUrl,        \* the object URL of the last uploaded file, or NULL
  isProcessing,  \* the processing overlay is shown
  error,         \* the error message shown, or NULL
  pending,       \* the files whose extraction is in flight
  nextUuid,      \* the number of the next generated identifier
  mounted,       \* the mount effect has run
  exported,      \* the last download: the control used and the number of
                 \* validation errors of the document at that moment
  edits,         \* the number of user edits so far
  uploads        \* the number of uploads started so far

VARIABLES
  initialDrmd,   \* what the object INITIAL_DRMD holds
  prevData,      \* what the tree the last update started from holds after
                 \* that update, NULL before the first update
  payload        \* what the last extraction payload holds after its
                 \* handler, NULL before the first extraction

VARIABLES
  cdDoc,         \* the document handed to the encoder
  cdXml,         \* the XML the encoder returned
  cdOut,         \* the document the decoder returned for that XML
  cdPhase        \* "idle", "document", "encoded", "received", "decoded", "imported"

VARIABLES
  mgProps,       \* the properties of an extraction payload
  mgOut,         \* the properties the updater makes of them
  mgPhase        \* "idle", "payload", "merged"

VARIABLES
  vlAdmin,       \* the administrativeData of an extraction payload
  vlOut,         \* the administrativeData of the document after the upload
  vlXml,         \* the drmd:validity elements the encoder writes for it
  vlPhase        \* "idle", "payload", "normalized", "encoded"

cvVars == <<cvVersion, cvValue, cvUnit, cvPhase, cvOut, cvOut2>>

appVars == <<drmdData, geminiApiKey, pdfUrl, isProcessing, error, pending,
             nextUuid, mounted, exported, edits, uploads,
             initialDrmd, prevData, payload>>

heldVars == <<initialDrmd, prevData, payload>>

cdVars == <<cdDoc, cdXml, cdOut, cdPhase>>

mgVars == <<mgProps, mgOut, mgPhase>>

vlVars == <<vlAdmin, vlOut, vlXml, vlPhase>>

vars == <<cvVars, appVars, cdVars, mgVars, vlVars>>

-----------------------------------------------------------------------------
(* JavaScript strings *)

NULL == <<"NULL">>

EMPTY == <<>>

IsWs(c) == c \in {" ", "\t", "\n", "\r"}

Digits == <<"0", "1", "2", "3", "4", "5", "6", "7", "8", "9">>

IsDigit(c) == \E i \in 1..Len(Digits) : Digits[i] = c

DigitVal(c) == (CHOOSE i \in 1..Len(Digits) : Digits[i] = c) - 1

UpperChars ==
  <<"A", "B", "C", "D", "E", "F", "G", "H", "I", "J", "K", "L", "M",
    "N", "O", "P", "Q", "R", "S", "T", "U", "V", "W", "X", "Y", "Z">>

LowerChars ==
  <<"a", "b", "c", "d", "e", "f", "g", "h", "i", "j", "k", "l", "m",
    "n", "o", "p", "q", "r", "s", "t", "u", "v", "w", "x", "y", "z">>

LowerChar(c) ==
  IF \E i \in 1..Len(UpperChars) : UpperChars[i] = c
  THEN LowerChars[CHOOSE i \in 1..Len(UpperChars) : UpperChars[i] = c]
  ELSE c

\* String.prototype.toLowerCase
toLowerCase(s) == [i \in 1..Len(s) |-> LowerChar(s[i])]

RECURSIVE TrimStart(_)
TrimStart(s) ==
  IF Len(s) > 0 /\ IsWs(s[1]) THEN TrimStart(Tail(s)) ELSE s

RECURSIVE TrimEnd(_)
TrimEnd(s) ==
  IF Len(s) > 0 /\ IsWs(s[Len(s)]) THEN TrimEnd(SubSeq(s, 1, Len(s) - 1)) ELSE s

\* String.prototype.trim
trim(s) == TrimEnd(TrimStart(s))

\* s.replace(/\s+/g, '')
RemoveWhitespace(s) == SelectSeq(s, LAMBDA c : ~IsWs(c))

\* s.startsWith(p)
startsWith(s, p) == Len(s) >= Len(p) /\ SubSeq(s, 1, Len(p)) = p

\* s.replace(/^\s*in\s+/i, ''): the prefix is removed only when "in" is
\* followed by at least one whitespace character
StripInPrefix(s) ==
  LET t == TrimStart(s)
  IN  IF /\ Len(t) >= 3
         /\ LowerChar(t[1]) = "i"
         /\ LowerChar(t[2]) = "n"
         /\ IsWs(t[3])
      THEN TrimStart(SubSeq(t, 3, Len(t)))
      ELSE s

-----------------------------------------------------------------------------
(* JavaScript numbers.  A finite number is sign * m * 10^e with m a natural *)
(* number; NaN is the record with nan = TRUE.                               *)

NaN == [nan |-> TRUE, neg |-> FALSE, m |-> 0, e |-> 0]

Num(neg, m, e) == [nan |-> FALSE, neg |-> neg, m |-> m, e |-> e]

RECURSIVE Pow10(_)
Pow10(n) == IF n <= 0 THEN 1 ELSE 10 * Pow10(n - 1)

RECURSIVE NumDigits(_)
NumDigits(n) == IF n < 10 THEN 1 ELSE 1 + NumDigits(n \div 10)

\* the length of the run of digits of s that starts at index i
RECURSIVE DigitRun(_, _)
DigitRun(s, i) ==
  IF i <= Len(s) /\ IsDigit(s[i]) THEN 1 + DigitRun(s, i + 1) ELSE 0

\* the value of the n digits of s that start at index i
RECURSIVE DigitsValue(_, _, _)
DigitsValue(s, i, n) ==
  IF n = 0 THEN 0
  ELSE 10 * DigitsValue(s, i, n - 1) + DigitVal(s[i + n - 1])

\* parseFloat, the exponent: ne digits at index pe, none when ne = 0
ParseExponent(s, neg, mant, n2, eneg, pe, ne) ==
  Num(neg, mant,
      (IF ne > 0 THEN (IF eneg THEN -1 ELSE 1) * DigitsValue(s, pe, ne) ELSE 0)
        - n2)

\* parseFloat, the fraction: n2 digits after the decimal point
ParseFraction(s, neg, p0, n1, dot, n2) ==
  LET p2   == IF dot THEN p0 + n1 + 1 + n2 ELSE p0 + n1
      hasE == p2 <= Len(s) /\ s[p2] \in {"e", "E"}
      eneg == hasE /\ p2 + 1 <= Len(s) /\ s[p2 + 1] = "-"
      pe   == IF eneg THEN p2 + 2 ELSE p2 + 1
  IN  IF n1 + n2 = 0 THEN NaN
      ELSE ParseExponent(s, neg,
             DigitsValue(s, p0, n1) * Pow10(n2)
               + (IF n2 > 0 THEN DigitsValue(s, p0 + n1 + 1, n2) ELSE 0),
             n2, eneg, pe, IF hasE THEN DigitRun(s, pe) ELSE 0)

\* parseFloat, the integer part: n1 digits at index p0
ParseMantissa(s, neg, p0, n1) ==
  IF p0 + n1 <= Len(s) /\ s[p0 + n1] = "."
  THEN ParseFraction(s, neg, p0, n1, TRUE, DigitRun(s, p0 + n1 + 1))
  ELSE ParseFraction(s, neg, p0, n1, FALSE, 0)

\* parseFloat of a string without leading whitespace
ParseSigned(s) ==
  IF Len(s) >= 1 /\ s[1] = "-"
  THEN ParseMantissa(s, TRUE, 2, DigitRun(s, 2))
  ELSE ParseMantissa(s, FALSE, 1, DigitRun(s, 1))

\* parseFloat: the longest prefix that is a decimal literal
\* [-] digits [. digits] [(e|E) [-] digits], NaN when there is none
parseFloat(str) == ParseSigned(TrimStart(str))

isNaN(x) == x.nan

\* the decimal digits of a natural number, as characters
RECURSIVE IntToChars(_)
IntToChars(n) ==
  IF n < 10 THEN <<Digits[n + 1]>>
  ELSE IntToChars(n \div 10) \o <<Digits[(n % 10) + 1]>>

RECURSIVE Zeros(_)
Zeros(n) == IF n <= 0 THEN <<>> ELSE <<"0">> \o Zeros(n - 1)

RECURSIVE StripZeros(_)
StripZeros(x) ==
  IF x.m # 0 /\ x.m % 10 = 0
  THEN StripZeros([x EXCEPT !.m = x.m \div 10, !.e = x.e + 1])
  ELSE x

\* the digits d of a number with exponent e, as Number.prototype.toString
\* writes them: with k digits and the decimal point after digit n, plain
\* notation for -6 < n <= 21 and exponent notation otherwise
FormatDigits(neg, d, e) ==
  LET k  == Len(d)
      n  == Len(d) + e
      ee == Len(d) + e - 1
  IN  (IF neg THEN <<"-">> ELSE <<>>)
      \o (IF k <= n /\ n <= 21 THEN d \o Zeros(n - k)
          ELSE IF 0 < n /\ n <= 21
            THEN SubSeq(d, 1, n) \o <<".">> \o SubSeq(d, n + 1, k)
          ELSE IF -6 < n /\ n <= 0
            THEN <<"0", ".">> \o Zeros(-n) \o d
          ELSE
            (IF k = 1 THEN d ELSE <<d[1], ".">> \o SubSeq(d, 2, k))
            \o <<"e">> \o (IF ee < 0 THEN <<"-">> ELSE <<"+">>)
            \o IntToChars(IF ee < 0 THEN -ee ELSE ee))

FormatStripped(x) == FormatDigits(x.neg, IntToChars(x.m), x.e)

\* Number.prototype.toString (radix 10)
NumberToString(x0) ==
  IF x0.nan THEN <<"N", "a", "N">>
  ELSE IF x0.m = 0 THEN <<"0">>
  ELSE FormatStripped(StripZeros(x0))

\* the product hi * 10^4 + lo rounded half up to the digits above position k
RoundAt(x, fe, hi, lo, k) ==
  LET q0 == IF k <= 0 THEN hi * 10000 + lo
            ELSE IF k <= 4 THEN hi * Pow10(4 - k) + (lo \div Pow10(k))
            ELSE hi \div Pow10(k - 4)
      r  == IF k <= 0 THEN 0
            ELSE IF k <= 4 THEN lo % Pow10(k)
            ELSE (hi % Pow10(k - 4)) * 10000 + lo
  IN  Num(x.neg,
          q0 + (IF k > 0 /\ 2 * r >= Pow10(k) THEN 1 ELSE 0),
          x.e + fe + (IF k > 0 THEN k ELSE 0))

\* the product hi * 10^4 + lo rounded to six significant digits
RoundSix(x, fe, hi, lo) ==
  RoundAt(x, fe, hi, lo,
          (IF hi = 0 THEN NumDigits(lo) ELSE NumDigits(hi) + 4) - 6)

\* x.m * (a * 10^4 + b) in two limbs, t = x.m * b
MulLimbs(x, fe, a, t) == RoundSix(x, fe, x.m * a + (t \div 10000), t % 10000)

\* Number((x * factor).toPrecision(6)): the product rounded half up to six
\* significant digits.  The factor fm * 10^fe has at most eight digits and is
\* split in two limbs so that no intermediate product leaves 32 bits.
MulPrecision6(x, fm, fe) ==
  MulLimbs(x, fe, fm \div 10000, x.m * (fm % 10000))

-----------------------------------------------------------------------------
(* The unit converter.  Two versions of it are in the repository:          *)
(* src/utils/unitConverter.ts, the module App.tsx, geminiService.ts and    *)
(* xmlGenerator.ts import, and the version of src/unnamed/part_002.        *)

\* UNIT_MAP of src/utils/unitConverter.ts, in the order of its keys;
\* factor = fm * 10^fe
UNIT_MAP ==
  <<
    [key |-> <<"%">>, dsiUnit |-> <<"\\", "o", "n", "e">>, fm |-> 1, fe |-> -2],
    [key |-> <<"p", "e", "r", "c", "e", "n", "t">>, dsiUnit |-> <<"\\", "o", "n", "e">>, fm |-> 1, fe |-> -2],
    [key |-> <<"p", "p", "m">>, dsiUnit |-> <<"\\", "o", "n", "e">>, fm |-> 1, fe |-> -6],
    [key |-> <<"p", "p", "b">>, dsiUnit |-> <<"\\", "o", "n", "e">>, fm |-> 1, fe |-> -9],
    [key |-> <<"m", "g", "/", "k", "g">>, dsiUnit |-> <<"\\", "m", "i", "l", "l", "i", "\\", "g", "r", "a", "m", "\\", "k", "i", "l", "o", "g", "r", "a", "m", "\\", "t", "o", "t", "h", "e", "{", "-", "1", "}">>, fm |-> 1, fe |-> 0],
    [key |-> <<"m", "g", "k", "g", "-", "1">>, dsiUnit |-> <<"\\", "m", "i", "l", "l", "i", "\\", "g", "r", "a", "m", "\\", "k", "i", "l", "o", "g", "r", "a", "m", "\\", "t", "o", "t", "h", "e", "{", "-", "1", "}">>, fm |-> 1, fe |-> 0],
    [key |-> <<"m", "g", "k", "g", "supminus", "sup1">>, dsiUnit |-> <<"\\", "m", "i", "l", "l", "i", "\\", "g", "r", "a", "m", "\\", "k", "i", "l", "o", "g", "r", "a", "m", "\\", "t", "o", "t", "h", "e", "{", "-", "1", "}">>, fm |-> 1, fe |-> 0],
    [key |-> <<"micro", "g", "/", "k", "g">>, dsiUnit |-> <<"\\", "m", "i", "c", "r", "o", "\\", "g", "r", "a", "m", "\\", "k", "i", "l", "o", "g", "r", "a", "m", "\\", "t", "o", "t", "h", "e", "{", "-", "1", "}">>, fm |-> 1, fe |-> 0],
    [key |-> <<"u", "g", "/", "k", "g">>, dsiUnit |-> <<"\\", "m", "i", "c", "r", "o", "\\", "g", "r", "a", "m", "\\", "k", "i", "l", "o", "g", "r", "a", "m", "\\", "t", "o", "t", "h", "e", "{", "-", "1", "}">>, fm |-> 1, fe |-> 0],
    [key |-> <<"mu", "g", "/", "k", "g">>, dsiUnit |-> <<"\\", "m", "i", "c", "r", "o", "\\", "g", "r", "a", "m", "\\", "k", "i", "l", "o", "g", "r", "a", "m", "\\", "t", "o", "t", "h", "e", "{", "-", "1", "}">>, fm |-> 1, fe |-> 0],
    [key |-> <<"micro", "g", "k", "g", "-", "1">>, dsiUnit |-> <<"\\", "m", "i", "c", "r", "o", "\\", "g", "r", "a", "m", "\\", "k", "i", "l", "o", "g", "r", "a", "m", "\\", "t", "o", "t", "h", "e", "{", "-", "1", "}">>, fm |-> 1, fe |-> 0],
    [key |-> <<"u", "g", "k", "g", "-", "1">>, dsiUnit |-> <<"\\", "m", "i", "c", "r", "o", "\\", "g", "r", "a", "m", "\\", "k", "i", "l", "o", "g", "r", "a", "m", "\\", "t", "o", "t", "h", "e", "{", "-", "1", "}">>, fm |-> 1, fe |-> 0],
    [key |-> <<"micro", "g", "k", "g", "supminus", "sup1">>, dsiUnit |-> <<"\\", "m", "i", "c", "r", "o", "\\", "g", "r", "a", "m", "\\", "k", "i", "l", "o", "g", "r", "a", "m", "\\", "t", "o", "t", "h", "e", "{", "-", "1", "}">>, fm |-> 1, fe |-> 0],
    [key |-> <<"g", "/", "k", "g">>, dsiUnit |-> <<"\\", "g", "r", "a", "m", "\\", "k", "i", "l", "o", "g", "r", "a", "m", "\\", "t", "o", "t", "h", "e", "{", "-", "1", "}">>, fm |-> 1, fe |-> 0],
    [key |-> <<"g", "k", "g", "-", "1">>, dsiUnit |-> <<"\\", "g", "r", "a", "m", "\\", "k", "i", "l", "o", "g", "r", "a", "m", "\\", "t", "o", "t", "h", "e", "{", "-", "1", "}">>, fm |-> 1, fe |-> 0],
    [key |-> <<"g", "k", "g", "supminus", "sup1">>, dsiUnit |-> <<"\\", "g", "r", "a", "m", "\\", "k", "i", "l", "o", "g", "r", "a", "m", "\\", "t", "o", "t", "h", "e", "{", "-", "1", "}">>, fm |-> 1, fe |-> 0],
    [key |-> <<"m", "g", "/", "g">>, dsiUnit |-> <<"\\", "m", "i", "l", "l", "i", "\\", "g", "r", "a", "m", "\\", "g", "r", "a", "m", "\\", "t", "o", "t", "h", "e", "{", "-", "1", "}">>, fm |-> 1, fe |-> 0],
    [key |-> <<"m", "g", "g", "-", "1">>, dsiUnit |-> <<"\\", "m", "i", "l", "l", "i", "\\", "g", "r", "a", "m", "\\", "g", "r", "a", "m", "\\", "t", "o", "t", "h", "e", "{", "-", "1", "}">>, fm |-> 1, fe |-> 0],
    [key |-> <<"u", "g", "/", "g">>, dsiUnit |-> <<"\\", "m", "i", "c", "r", "o", "\\", "g", "r", "a", "m", "\\", "g", "r", "a", "m", "\\", "t", "o", "t", "h", "e", "{", "-", "1", "}">>, fm |-> 1, fe |-> 0],
    [key |-> <<"micro", "g", "/", "g">>, dsiUnit |-> <<"\\", "m", "i", "c", "r", "o", "\\", "g", "r", "a", "m", "\\", "g", "r", "a", "m", "\\", "t", "o", "t", "h", "e", "{", "-", "1", "}">>, fm |-> 1, fe |-> 0],
    [key |-> <<"mu", "g", "/", "g">>, dsiUnit |-> <<"\\", "m", "i", "c", "r", "o", "\\", "g", "r", "a", "m", "\\", "g", "r", "a", "m", "\\", "t", "o", "t", "h", "e", "{", "-", "1", "}">>, fm |-> 1, fe |-> 0],
    [key |-> <<"g", "/", "1", "0", "0", "g">>, dsiUnit |-> <<"\\", "g", "r", "a", "m", "\\", "h", "e", "c", "t", "o", "\\", "g", "r", "a", "m", "\\", "t", "o", "t", "h", "e", "{", "-", "1", "}">>, fm |-> 1, fe |-> 0],
    [key |-> <<"m", "2", "/", "g">>, dsiUnit |-> <<"\\", "m", "e", "t", "r", "e", "\\", "t", "o", "t", "h", "e", "{", "2", "}", "\\", "g", "r", "a", "m", "\\", "t", "o", "t", "h", "e", "{", "-", "1", "}">>, fm |-> 1, fe |-> 0],
    [key |-> <<"m", "sup2", "/", "g">>, dsiUnit |-> <<"\\", "m", "e", "t", "r", "e", "\\", "t", "o", "t", "h", "e", "{", "2", "}", "\\", "g", "r", "a", "m", "\\", "t", "o", "t", "h", "e", "{", "-", "1", "}">>, fm |-> 1, fe |-> 0],
    [key |-> <<"c", "m", "2", "/", "g">>, dsiUnit |-> <<"\\", "c", "e", "n", "t", "i", "\\", "m", "e", "t", "r", "e", "\\", "t", "o", "t", "h", "e", "{", "2", "}", "\\", "g", "r", "a", "m", "\\", "t", "o", "t", "h", "e", "{", "-", "1", "}">>, fm |-> 1, fe |-> 0],
    [key |-> <<"c", "m", "sup2", "/", "g">>, dsiUnit |-> <<"\\", "c", "e", "n", "t", "i", "\\", "m", "e", "t", "r", "e", "\\", "t", "o", "t", "h", "e", "{", "2", "}", "\\", "g", "r", "a", "m", "\\", "t", "o", "t", "h", "e", "{", "-", "1", "}">>, fm |-> 1, fe |-> 0],
    [key |-> <<"m", "g">>, dsiUnit |-> <<"\\", "m", "i", "l", "l", "i", "\\", "g", "r", "a", "m">>, fm |-> 1, fe |-> -6],
    [key |-> <<"g">>, dsiUnit |-> <<"\\", "g", "r", "a", "m">>, fm |-> 1, fe |-> -3],
    [key |-> <<"k", "g">>, dsiUnit |-> <<"\\", "k", "i", "l", "o", "g", "r", "a", "m">>, fm |-> 1, fe |-> 0],
    [key |-> <<"u", "g">>, dsiUnit |-> <<"\\", "m", "i", "c", "r", "o", "\\", "g", "r", "a", "m">>, fm |-> 1, fe |-> -9],
    [key |-> <<"micro", "g">>, dsiUnit |-> <<"\\", "m", "i", "c", "r", "o", "\\", "g", "r", "a", "m">>, fm |-> 1, fe |-> -9],
    [key |-> <<"mu", "g">>, dsiUnit |-> <<"\\", "m", "i", "c", "r", "o", "\\", "g", "r", "a", "m">>, fm |-> 1, fe |-> -9],
    [key |-> <<"l", "b">>, dsiUnit |-> <<"\\", "k", "i", "l", "o", "g", "r", "a", "m">>, fm |-> 45359237, fe |-> -8],
    [key |-> <<"o", "z">>, dsiUnit |-> <<"\\", "k", "i", "l", "o", "g", "r", "a", "m">>, fm |-> 2834959, fe |-> -8],
    [key |-> <<"t">>, dsiUnit |-> <<"\\", "t", "o", "n", "n", "e">>, fm |-> 1, fe |-> 3],
    [key |-> <<"n", "m">>, dsiUnit |-> <<"\\", "n", "a", "n", "o", "\\", "m", "e", "t", "r", "e">>, fm |-> 1, fe |-> -9],
    [key |-> <<"micro", "m">>, dsiUnit |-> <<"\\", "m", "i", "c", "r", "o", "\\", "m", "e", "t", "r", "e">>, fm |-> 1, fe |-> -6],
    [key |-> <<"mu", "m">>, dsiUnit |-> <<"\\", "m", "i", "c", "r", "o", "\\", "m", "e", "t", "r", "e">>, fm |-> 1, fe |-> -6],
    [key |-> <<"u", "m">>, dsiUnit |-> <<"\\", "m", "i", "c", "r", "o", "\\", "m", "e", "t", "r", "e">>, fm |-> 1, fe |-> -6],
    [key |-> <<"m", "m">>, dsiUnit |-> <<"\\", "m", "i", "l", "l", "i", "\\", "m", "e", "t", "r", "e">>, fm |-> 1, fe |-> -3],
    [key |-> <<"c", "m">>, dsiUnit |-> <<"\\", "c", "e", "n", "t", "i", "\\", "m", "e", "t", "r", "e">>, fm |-> 1, fe |-> -2],
    [key |-> <<"m">>, dsiUnit |-> <<"\\", "m", "e", "t", "r", "e">>, fm |-> 1, fe |-> 0],
    [key |-> <<"k", "m">>, dsiUnit |-> <<"\\", "k", "i", "l", "o", "\\", "m", "e", "t", "r", "e">>, fm |-> 1, fe |-> 3],
    [key |-> <<"i", "n", "c", "h">>, dsiUnit |-> <<"\\", "m", "e", "t", "r", "e">>, fm |-> 254, fe |-> -4],
    [key |-> <<"i", "n">>, dsiUnit |-> <<"\\", "m", "e", "t", "r", "e">>, fm |-> 254, fe |-> -4],
    [key |-> <<"f", "t">>, dsiUnit |-> <<"\\", "m", "e", "t", "r", "e">>, fm |-> 3048, fe |-> -4],
    [key |-> <<"m", "i">>, dsiUnit |-> <<"\\", "m", "e", "t", "r", "e">>, fm |-> 1609344, fe |-> -3],
    [key |-> <<"m", "2">>, dsiUnit |-> <<"\\", "m", "e", "t", "r", "e", "\\", "t", "o", "t", "h", "e", "{", "2", "}">>, fm |-> 1, fe |-> 0],
    [key |-> <<"m", "sup2">>, dsiUnit |-> <<"\\", "m", "e", "t", "r", "e", "\\", "t", "o", "t", "h", "e", "{", "2", "}">>, fm |-> 1, fe |-> 0],
    [key |-> <<"c", "m", "2">>, dsiUnit |-> <<"\\", "c", "e", "n", "t", "i", "\\", "m", "e", "t", "r", "e", "\\", "t", "o", "t", "h", "e", "{", "2", "}">>, fm |-> 1, fe |-> -4],
    [key |-> <<"c", "m", "sup2">>, dsiUnit |-> <<"\\", "c", "e", "n", "t", "i", "\\", "m", "e", "t", "r", "e", "\\", "t", "o", "t", "h", "e", "{", "2", "}">>, fm |-> 1, fe |-> -4],
    [key |-> <<"g", "/", "c", "m", "3">>, dsiUnit |-> <<"\\", "g", "r", "a", "m", "\\", "c", "e", "n", "t", "i", "\\", "m", "e", "t", "r", "e", "\\", "t", "o", "t", "h", "e", "{", "-", "3", "}">>, fm |-> 1, fe |-> 0],
    [key |-> <<"g", "/", "c", "m", "sup3">>, dsiUnit |-> <<"\\", "g", "r", "a", "m", "\\", "c", "e", "n", "t", "i", "\\", "m", "e", "t", "r", "e", "\\", "t", "o", "t", "h", "e", "{", "-", "3", "}">>, fm |-> 1, fe |-> 0],
    [key |-> <<"deg", "C">>, dsiUnit |-> <<"\\", "d", "e", "g", "r", "e", "e", "c", "e", "l", "s", "i", "u", "s">>, fm |-> 1, fe |-> 0],
    [key |-> <<"C">>, dsiUnit |-> <<"\\", "d", "e", "g", "r", "e", "e", "c", "e", "l", "s", "i", "u", "s">>, fm |-> 1, fe |-> 0],
    [key |-> <<"K">>, dsiUnit |-> <<"\\", "k", "e", "l", "v", "i", "n">>, fm |-> 1, fe |-> 0],
    [key |-> <<"h">>, dsiUnit |-> <<"\\", "h", "o", "u", "r">>, fm |-> 36, fe |-> 2],
    [key |-> <<"m", "i", "n">>, dsiUnit |-> <<"\\", "m", "i", "n", "u", "t", "e">>, fm |-> 6, fe |-> 1],
    [key |-> <<"s">>, dsiUnit |-> <<"\\", "s", "e", "c", "o", "n", "d">>, fm |-> 1, fe |-> 0],
    [key |-> <<"L">>, dsiUnit |-> <<"\\", "l", "i", "t", "r", "e">>, fm |-> 1, fe |-> -3],
    [key |-> <<"l">>, dsiUnit |-> <<"\\", "l", "i", "t", "r", "e">>, fm |-> 1, fe |-> -3],
    [key |-> <<"m", "L">>, dsiUnit |-> <<"\\", "m", "i", "l", "l", "i", "\\", "l", "i", "t", "r", "e">>, fm |-> 1, fe |-> -6],
    [key |-> <<"m", "l">>, dsiUnit |-> <<"\\", "m", "i", "l", "l", "i", "\\", "l", "i", "t", "r", "e">>, fm |-> 1, fe |-> -6],
    [key |-> <<"P", "a">>, dsiUnit |-> <<"\\", "p", "a", "s", "c", "a", "l">>, fm |-> 1, fe |-> 0],
    [key |-> <<"b", "a", "r">>, dsiUnit |-> <<"\\", "p", "a", "s", "c", "a", "l">>, fm |-> 1, fe |-> 5],
    [key |-> <<"m", "b", "a", "r">>, dsiUnit |-> <<"\\", "p", "a", "s", "c", "a", "l">>, fm |-> 1, fe |-> 2],
    [key |-> <<"h", "P", "a">>, dsiUnit |-> <<"\\", "p", "a", "s", "c", "a", "l">>, fm |-> 1, fe |-> 2]
  >>

\* UNIT_MAP of src/unnamed/part_002
UNIT_MAP_part002 ==
  <<
    [key |-> <<"%">>, dsiUnit |-> <<"\\", "p", "e", "r", "c", "e", "n", "t">>, fm |-> 1, fe |-> 0],
    [key |-> <<"p", "e", "r", "c", "e", "n", "t">>, dsiUnit |-> <<"\\", "p", "e", "r", "c", "e", "n", "t">>, fm |-> 1, fe |-> 0],
    [key |-> <<"p", "p", "m">>, dsiUnit |-> <<"\\", "o", "n", "e">>, fm |-> 1, fe |-> -6],
    [key |-> <<"p", "p", "b">>, dsiUnit |-> <<"\\", "o", "n", "e">>, fm |-> 1, fe |-> -9],
    [key |-> <<"o", "n", "e">>, dsiUnit |-> <<"\\", "o", "n", "e">>, fm |-> 1, fe |-> 0],
    [key |-> <<"/", "o", "n", "e">>, dsiUnit |-> <<"\\", "o", "n", "e">>, fm |-> 1, fe |-> 0],
    [key |-> <<"\\", "o", "n", "e">>, dsiUnit |-> <<"\\", "o", "n", "e">>, fm |-> 1, fe |-> 0],
    [key |-> <<"m", "g", "/", "k", "g">>, dsiUnit |-> <<"\\", "m", "i", "l", "l", "i", "\\", "g", "r", "a", "m", "\\", "k", "i", "l", "o", "g", "r", "a", "m", "\\", "t", "o", "t", "h", "e", "{", "-", "1", "}">>, fm |-> 1, fe |-> 0],
    [key |-> <<"m", "g", "k", "g", "-", "1">>, dsiUnit |-> <<"\\", "m", "i", "l", "l", "i", "\\", "g", "r", "a", "m", "\\", "k", "i", "l", "o", "g", "r", "a", "m", "\\", "t", "o", "t", "h", "e", "{", "-", "1", "}">>, fm |-> 1, fe |-> 0],
    [key |-> <<"m", "g", "k", "g", "supminus", "sup1">>, dsiUnit |-> <<"\\", "m", "i", "l", "l", "i", "\\", "g", "r", "a", "m", "\\", "k", "i", "l", "o", "g", "r", "a", "m", "\\", "t", "o", "t", "h", "e", "{", "-", "1", "}">>, fm |-> 1, fe |-> 0],
    [key |-> <<"micro", "g", "/", "k", "g">>, dsiUnit |-> <<"\\", "m", "i", "c", "r", "o", "\\", "g", "r", "a", "m", "\\", "k", "i", "l", "o", "g", "r", "a", "m", "\\", "t", "o", "t", "h", "e", "{", "-", "1", "}">>, fm |-> 1, fe |-> 0],
    [key |-> <<"u", "g", "/", "k", "g">>, dsiUnit |-> <<"\\", "m", "i", "c", "r", "o", "\\", "g", "r", "a", "m", "\\", "k", "i", "l", "o", "g", "r", "a", "m", "\\", "t", "o", "t", "h", "e", "{", "-", "1", "}">>, fm |-> 1, fe |-> 0],
    [key |-> <<"mu", "g", "/", "k", "g">>, dsiUnit |-> <<"\\", "m", "i", "c", "r", "o", "\\", "g", "r", "a", "m", "\\", "k", "i", "l", "o", "g", "r", "a", "m", "\\", "t", "o", "t", "h", "e", "{", "-", "1", "}">>, fm |-> 1, fe |-> 0],
    [key |-> <<"micro", "g", "k", "g", "-", "1">>, dsiUnit |-> <<"\\", "m", "i", "c", "r", "o", "\\", "g", "r", "a", "m", "\\", "k", "i", "l", "o", "g", "r", "a", "m", "\\", "t", "o", "t", "h", "e", "{", "-", "1", "}">>, fm |-> 1, fe |-> 0],
    [key |-> <<"u", "g", "k", "g", "-", "1">>, dsiUnit |-> <<"\\", "m", "i", "c", "r", "o", "\\", "g", "r", "a", "m", "\\", "k", "i", "l", "o", "g", "r", "a", "m", "\\", "t", "o", "t", "h", "e", "{", "-", "1", "}">>, fm |-> 1, fe |-> 0],
    [key |-> <<"micro", "g", "k", "g", "supminus", "sup1">>, dsiUnit |-> <<"\\", "m", "i", "c", "r", "o", "\\", "g", "r", "a", "m", "\\", "k", "i", "l", "o", "g", "r", "a", "m", "\\", "t", "o", "t", "h", "e", "{", "-", "1", "}">>, fm |-> 1, fe |-> 0],
    [key |-> <<"g", "/", "k", "g">>, dsiUnit |-> <<"\\", "g", "r", "a", "m", "\\", "k", "i", "l", "o", "g", "r", "a", "m", "\\", "t", "o", "t", "h", "e", "{", "-", "1", "}">>, fm |-> 1, fe |-> 0],
    [key |-> <<"g", "k", "g", "-", "1">>, dsiUnit |-> <<"\\", "g", "r", "a", "m", "\\", "k", "i", "l", "o", "g", "r", "a", "m", "\\", "t", "o", "t", "h", "e", "{", "-", "1", "}">>, fm |-> 1, fe |-> 0],
    [key |-> <<"g", "k", "g", "supminus", "sup1">>, dsiUnit |-> <<"\\", "g", "r", "a", "m", "\\", "k", "i", "l", "o", "g", "r", "a", "m", "\\", "t", "o", "t", "h", "e", "{", "-", "1", "}">>, fm |-> 1, fe |-> 0],
    [key |-> <<"m", "g", "/", "g">>, dsiUnit |-> <<"\\", "m", "i", "l", "l", "i", "\\", "g", "r", "a", "m", "\\", "g", "r", "a", "m", "\\", "t", "o", "t", "h", "e", "{", "-", "1", "}">>, fm |-> 1, fe |-> 0],
    [key |-> <<"m", "g", "g", "-", "1">>, dsiUnit |-> <<"\\", "m", "i", "l", "l", "i", "\\", "g", "r", "a", "m", "\\", "g", "r", "a", "m", "\\", "t", "o", "t", "h", "e", "{", "-", "1", "}">>, fm |-> 1, fe |-> 0],
    [key |-> <<"u", "g", "/", "g">>, dsiUnit |-> <<"\\", "m", "i", "c", "r", "o", "\\", "g", "r", "a", "m", "\\", "g", "r", "a", "m", "\\", "t", "o", "t", "h", "e", "{", "-", "1", "}">>, fm |-> 1, fe |-> 0],
    [key |-> <<"micro", "g", "/", "g">>, dsiUnit |-> <<"\\", "m", "i", "c", "r", "o", "\\", "g", "r", "a", "m", "\\", "g", "r", "a", "m", "\\", "t", "o", "t", "h", "e", "{", "-", "1", "}">>, fm |-> 1, fe |-> 0],
    [key |-> <<"mu", "g", "/", "g">>, dsiUnit |-> <<"\\", "m", "i", "c", "r", "o", "\\", "g", "r", "a", "m", "\\", "g", "r", "a", "m", "\\", "t", "o", "t", "h", "e", "{", "-", "1", "}">>, fm |-> 1, fe |-> 0],
    [key |-> <<"g", "/", "1", "0", "0", "g">>, dsiUnit |-> <<"\\", "g", "r", "a", "m", "\\", "h", "e", "c", "t", "o", "\\", "g", "r", "a", "m", "\\", "t", "o", "t", "h", "e", "{", "-", "1", "}">>, fm |-> 1, fe |-> 0],
    [key |-> <<"m", "2", "/", "g">>, dsiUnit |-> <<"\\", "m", "e", "t", "r", "e", "\\", "t", "o", "t", "h", "e", "{", "2", "}", "\\", "g", "r", "a", "m", "\\", "t", "o", "t", "h", "e", "{", "-", "1", "}">>, fm |-> 1, fe |-> 0],
    [key |-> <<"m", "sup2", "/", "g">>, dsiUnit |-> <<"\\", "m", "e", "t", "r", "e", "\\", "t", "o", "t", "h", "e", "{", "2", "}", "\\", "g", "r", "a", "m", "\\", "t", "o", "t", "h", "e", "{", "-", "1", "}">>, fm |-> 1, fe |-> 0],
    [key |-> <<"c", "m", "2", "/", "g">>, dsiUnit |-> <<"\\", "c", "e", "n", "t", "i", "\\", "m", "e", "t", "r", "e", "\\", "t", "o", "t", "h", "e", "{", "2", "}", "\\", "g", "r", "a", "m", "\\", "t", "o", "t", "h", "e", "{", "-", "1", "}">>, fm |-> 1, fe |-> 0],
    [key |-> <<"c", "m", "sup2", "/", "g">>, dsiUnit |-> <<"\\", "c", "e", "n", "t", "i", "\\", "m", "e", "t", "r", "e", "\\", "t", "o", "t", "h", "e", "{", "2", "}", "\\", "g", "r", "a", "m", "\\", "t", "o", "t", "h", "e", "{", "-", "1", "}">>, fm |-> 1, fe |-> 0],
    [key |-> <<"m", "g">>, dsiUnit |-> <<"\\", "m", "i", "l", "l", "i", "\\", "g", "r", "a", "m">>, fm |-> 1, fe |-> 0],
    [key |-> <<"g">>, dsiUnit |-> <<"\\", "g", "r", "a", "m">>, fm |-> 1, fe |-> 0],
    [key |-> <<"k", "g">>, dsiUnit |-> <<"\\", "k", "i", "l", "o", "g", "r", "a", "m">>, fm |-> 1, fe |-> 0],
    [key |-> <<"u", "g">>, dsiUnit |-> <<"\\", "m", "i", "c", "r", "o", "\\", "g", "r", "a", "m">>, fm |-> 1, fe |-> 0],
    [key |-> <<"micro", "g">>, dsiUnit |-> <<"\\", "m", "i", "c", "r", "o", "\\", "g", "r", "a", "m">>, fm |-> 1, fe |-> 0],
    [key |-> <<"mu", "g">>, dsiUnit |-> <<"\\", "m", "i", "c", "r", "o", "\\", "g", "r", "a", "m">>, fm |-> 1, fe |-> 0],
    [key |-> <<"l", "b">>, dsiUnit |-> <<"\\", "k", "i", "l", "o", "g", "r", "a", "m">>, fm |-> 45359237, fe |-> -8],
    [key |-> <<"o", "z">>, dsiUnit |-> <<"\\", "k", "i", "l", "o", "g", "r", "a", "m">>, fm |-> 2834959, fe |-> -8],
    [key |-> <<"t">>, dsiUnit |-> <<"\\", "t", "o", "n", "n", "e">>, fm |-> 1, fe |-> 3],
    [key |-> <<"n", "m">>, dsiUnit |-> <<"\\", "n", "a", "n", "o", "\\", "m", "e", "t", "r", "e">>, fm |-> 1, fe |-> 0],
    [key |-> <<"micro", "m">>, dsiUnit |-> <<"\\", "m", "i", "c", "r", "o", "\\", "m", "e", "t", "r", "e">>, fm |-> 1, fe |-> 0],
    [key |-> <<"mu", "m">>, dsiUnit |-> <<"\\", "m", "i", "c", "r", "o", "\\", "m", "e", "t", "r", "e">>, fm |-> 1, fe |-> 0],
    [key |-> <<"u", "m">>, dsiUnit |-> <<"\\", "m", "i", "c", "r", "o", "\\", "m", "e", "t", "r", "e">>, fm |-> 1, fe |-> 0],
    [key |-> <<"m", "m">>, dsiUnit |-> <<"\\", "m", "i", "l", "l", "i", "\\", "m", "e", "t", "r", "e">>, fm |-> 1, fe |-> 0],
    [key |-> <<"c", "m">>, dsiUnit |-> <<"\\", "c", "e", "n", "t", "i", "\\", "m", "e", "t", "r", "e">>, fm |-> 1, fe |-> 0],
    [key |-> <<"m">>, dsiUnit |-> <<"\\", "m", "e", "t", "r", "e">>, fm |-> 1, fe |-> 0],
    [key |-> <<"k", "m">>, dsiUnit |-> <<"\\", "k", "i", "l", "o", "\\", "m", "e", "t", "r", "e">>, fm |-> 1, fe |-> 0],
    [key |-> <<"i", "n", "c", "h">>, dsiUnit |-> <<"\\", "m", "e", "t", "r", "e">>, fm |-> 254, fe |-> -4],
    [key |-> <<"i", "n">>, dsiUnit |-> <<"\\", "m", "e", "t", "r", "e">>, fm |-> 254, fe |-> -4],
    [key |-> <<"f", "t">>, dsiUnit |-> <<"\\", "m", "e", "t", "r", "e">>, fm |-> 3048, fe |-> -4],
    [key |-> <<"m", "i">>, dsiUnit |-> <<"\\", "m", "e", "t", "r", "e">>, fm |-> 1609344, fe |-> -3],
    [key |-> <<"m", "2">>, dsiUnit |-> <<"\\", "m", "e", "t", "r", "e", "\\", "t", "o", "t", "h", "e", "{", "2", "}">>, fm |-> 1, fe |-> 0],
    [key |-> <<"m", "sup2">>, dsiUnit |-> <<"\\", "m", "e", "t", "r", "e", "\\", "t", "o", "t", "h", "e", "{", "2", "}">>, fm |-> 1, fe |-> 0],
    [key |-> <<"c", "m", "2">>, dsiUnit |-> <<"\\", "c", "e", "n", "t", "i", "\\", "m", "e", "t", "r", "e", "\\", "t", "o", "t", "h", "e", "{", "2", "}">>, fm |-> 1, fe |-> 0],
    [key |-> <<"c", "m", "sup2">>, dsiUnit |-> <<"\\", "c", "e", "n", "t", "i", "\\", "m", "e", "t", "r", "e", "\\", "t", "o", "t", "h", "e", "{", "2", "}">>, fm |-> 1, fe |-> 0],
    [key |-> <<"g", "/", "c", "m", "3">>, dsiUnit |-> <<"\\", "g", "r", "a", "m", "\\", "c", "e", "n", "t", "i", "\\", "m", "e", "t", "r", "e", "\\", "t", "o", "t", "h", "e", "{", "-", "3", "}">>, fm |-> 1, fe |-> 0],
    [key |-> <<"g", "/", "c", "m", "sup3">>, dsiUnit |-> <<"\\", "g", "r", "a", "m", "\\", "c", "e", "n", "t", "i", "\\", "m", "e", "t", "r", "e", "\\", "t", "o", "t", "h", "e", "{", "-", "3", "}">>, fm |-> 1, fe |-> 0],
    [key |-> <<"deg", "C">>, dsiUnit |-> <<"\\", "d", "e", "g", "r", "e", "e", "c", "e", "l", "s", "i", "u", "s">>, fm |-> 1, fe |-> 0],
    [key |-> <<"C">>, dsiUnit |-> <<"\\", "d", "e", "g", "r", "e", "e", "c", "e", "l", "s", "i", "u", "s">>, fm |-> 1, fe |-> 0],
    [key |-> <<"K">>, dsiUnit |-> <<"\\", "k", "e", "l", "v", "i", "n">>, fm |-> 1, fe |-> 0],
    [key |-> <<"h">>, dsiUnit |-> <<"\\", "h", "o", "u", "r">>, fm |-> 1, fe |-> 0],
    [key |-> <<"m", "i", "n">>, dsiUnit |-> <<"\\", "m", "i", "n", "u", "t", "e">>, fm |-> 1, fe |-> 0],
    [key |-> <<"s">>, dsiUnit |-> <<"\\", "s", "e", "c", "o", "n", "d">>, fm |-> 1, fe |-> 0],
    [key |-> <<"L">>, dsiUnit |-> <<"\\", "l", "i", "t", "r", "e">>, fm |-> 1, fe |-> 0],
    [key |-> <<"l">>, dsiUnit |-> <<"\\", "l", "i", "t", "r", "e">>, fm |-> 1, fe |-> 0],
    [key |-> <<"m", "L">>, dsiUnit |-> <<"\\", "m", "i", "l", "l", "i", "\\", "l", "i", "t", "r", "e">>, fm |-> 1, fe |-> 0],
    [key |-> <<"m", "l">>, dsiUnit |-> <<"\\", "m", "i", "l", "l", "i", "\\", "l", "i", "t", "r", "e">>, fm |-> 1, fe |-> 0],
    [key |-> <<"P", "a">>, dsiUnit |-> <<"\\", "p", "a", "s", "c", "a", "l">>, fm |-> 1, fe |-> 0],
    [key |-> <<"b", "a", "r">>, dsiUnit |-> <<"\\", "p", "a", "s", "c", "a", "l">>, fm |-> 1, fe |-> 5],
    [key |-> <<"m", "b", "a", "r">>, dsiUnit |-> <<"\\", "p", "a", "s", "c", "a", "l">>, fm |-> 1, fe |-> 2],
    [key |-> <<"h", "P", "a">>, dsiUnit |-> <<"\\", "p", "a", "s", "c", "a", "l">>, fm |-> 1, fe |-> 2]
  >>

\* the result { dsiValue, dsiUnit }
Dsi(v, u) == [dsiValue |-> v, dsiUnit |-> u]

EmptyDsi == Dsi(EMPTY, EMPTY)

\* map[key] of a JavaScript object: the index of the entry, 0 when undefined
RECURSIVE IndexOfKeyFrom(_, _, _)
IndexOfKeyFrom(map, key, i) ==
  IF i > Len(map) THEN 0
  ELSE IF map[i].key = key THEN i
  ELSE IndexOfKeyFrom(map, key, i + 1)

IndexOfKey(map, key) == IndexOfKeyFrom(map, key, 1)

\* Object.keys(map).find(k => k.toLowerCase() === cleanUnit.toLowerCase())
RECURSIVE FindLowerKeyFrom(_, _, _)
FindLowerKeyFrom(map, key, i) ==
  IF i > Len(map) THEN 0
  ELSE IF toLowerCase(map[i].key) = toLowerCase(key) THEN i
  ELSE FindLowerKeyFrom(map, key, i + 1)

FindLowerKey(map, key) == FindLowerKeyFrom(map, key, 1)

\* the chain .replace(/sup-1/g,'-1') ... .replace(/sup3/g,'3')
SuperscriptChar(c) ==
  CASE c = "supminus" -> "-"
    [] c = "sup1" -> "1"
    [] c = "sup2" -> "2"
    [] c = "sup3" -> "3"
    [] OTHER -> c

NormalizeSuperscripts(s) == [i \in 1..Len(s) |-> SuperscriptChar(s[i])]

\* the unit without the "in " prefix and without whitespace
CleanUnit(unit) == RemoveWhitespace(trim(StripInPrefix(unit)))

\* a || b for table indexes
FirstFound(a, b) == IF a # 0 THEN a ELSE b

\* map[key], then the key found without regard to case
Lookup(map, key) == FirstFound(IndexOfKey(map, key), FindLowerKey(map, key))

\* the second lookup, on the unit with its superscripts replaced, when the
\* first one found nothing
ResolveNormalized(map, c0, i2, c1) ==
  IF i2 # 0 THEN [idx |-> i2, cleanUnit |-> c0]
  ELSE [idx |-> Lookup(map, c1), cleanUnit |-> c1]

ResolveClean(map, c0) ==
  ResolveNormalized(map, c0, Lookup(map, c0), NormalizeSuperscripts(c0))

\* the lookup of a unit: direct, case-insensitive, then both again on the
\* unit with its superscripts replaced.  idx = 0 when nothing is found;
\* cleanUnit is the variable of that name after the lookup.
ResolveUnit(map, unit) == ResolveClean(map, CleanUnit(unit))

NumChars == {"0", "1", "2", "3", "4", "5", "6", "7", "8", "9", ".", "e", "E", "-"}

\* s.replace(/[^0-9.eE-]/g, '')
numStr(s) == SelectSeq(s, LAMBDA c : c \in NumChars)

FactorIsOne(entry) == entry.fm = 1 /\ entry.fe = 0

\* Number(finalValue.toPrecision(6)).toString() for the factor fm * 10^fe
Scaled(numValue, fm, fe) == NumberToString(MulPrecision6(numValue, fm, fe))

\* the result for a unit that resolves to `conversion` and a value that is
\* a number
ConvertNumber(ns, numValue, conversion) ==
  Dsi(IF ~FactorIsOne(conversion)
      THEN Scaled(numValue, conversion.fm, conversion.fe)
      ELSE ns,
      conversion.dsiUnit)

ConvertParsed(map, r, ns, numValue) ==
  IF r.idx # 0 /\ ~isNaN(numValue)
  THEN ConvertNumber(ns, numValue, map[r.idx])
  ELSE EmptyDsi

ConvertResolved(map, r, ns) == ConvertParsed(map, r, ns, parseFloat(ns))

\* convertToDSI of src/utils/unitConverter.ts
convertToDSI(value, unit) ==
  IF value = NULL THEN EmptyDsi
  ELSE IF unit = NULL THEN EmptyDsi
  ELSE ConvertResolved(UNIT_MAP, ResolveUnit(UNIT_MAP, unit), numStr(value))

\* part_002: the dsiValue for the factor fm * 10^fe
ConvertValue_part002(valStr, numValue, fm, fe) ==
  IF ~isNaN(numValue)
  THEN IF ~(fm = 1 /\ fe = 0) THEN Scaled(numValue, fm, fe) ELSE trim(valStr)
  ELSE IF (fm = 1 /\ fe = 0) /\ Len(trim(valStr)) > 0 THEN trim(valStr)
  ELSE EMPTY

\* part_002: a unit of the table takes its dsiUnit and factor, an unknown
\* unit that starts with a backslash passes with factor 1
ConvertResolved_part002(map, r, valStr) ==
  IF r.idx # 0
  THEN Dsi(ConvertValue_part002(valStr, parseFloat(numStr(valStr)),
                                map[r.idx].fm, map[r.idx].fe),
           map[r.idx].dsiUnit)
  ELSE IF startsWith(r.cleanUnit, <<"\\">>)
  THEN Dsi(ConvertValue_part002(valStr, parseFloat(numStr(valStr)), 1, 0),
           r.cleanUnit)
  ELSE EmptyDsi

\* convertToDSI of src/unnamed/part_002
convertToDSI_part002(value, unit) ==
  IF unit = NULL THEN EmptyDsi
  ELSE ConvertResolved_part002(UNIT_MAP_part002,
                               ResolveUnit(UNIT_MAP_part002, unit),
                               IF value = NULL THEN EMPTY ELSE value)

\* the converter of either version
ConverterVersions == {"utils/unitConverter.ts", "part_002"}

Convert(version, value, unit) ==
  IF version = "part_002" THEN convertToDSI_part002(value, unit)
  ELSE convertToDSI(value, unit)

-----------------------------------------------------------------------------
(* JavaScript objects.  An object is a function from its keys; a key the   *)
(* object lacks reads as NULL (undefined).                                 *)

Has(o, f) == f \in DOMAIN o

Get(o, f) == IF f \in DOMAIN o THEN o[f] ELSE NULL

\* !s for a string or undefined
Falsy(s) == s = NULL \/ s = EMPTY

\* a || b for strings
Or(a, b) == IF Falsy(a) THEN b ELSE a

\* o.f || [] for an array
GetList(o, f) == IF f \in DOMAIN o THEN o[f] ELSE <<>>

\* {}
EmptyObject == [x \in {} |-> x]

\* o.f || {} for an object
GetObject(o, f) == IF f \in DOMAIN o THEN o[f] ELSE EmptyObject

\* { ...a, ...b }
Spread(a, b) ==
  [k \in (DOMAIN a) \cup (DOMAIN b) |-> IF k \in DOMAIN b THEN b[k] ELSE a[k]]

\* list.splice(idx, 1) on a copy, idx counted from 1
RemoveAt(list, idx) ==
  SubSeq(list, 1, idx - 1) \o SubSeq(list, idx + 1, Len(list))

\* list.map(f)
Map(list, F(_)) == [i \in 1..Len(list) |-> F(list[i])]

RECURSIVE FlattenFrom(_, _)
FlattenFrom(lists, i) ==
  IF i > Len(lists) THEN <<>> ELSE lists[i] \o FlattenFrom(lists, i + 1)

\* the concatenation of the lists of a list
Flatten(lists) == FlattenFrom(lists \o <<>>, 1)

-----------------------------------------------------------------------------
(* The document model (types.ts, src/unnamed/part_000).  Coordinates,      *)
(* which the document only stores, are left out.                           *)

\* generateUUID(): the n-th identifier generated; no two are equal and none
\* is the empty string
Uuid(n) == <<"u", "u", "i", "d", "-">> \o IntToChars(n)

\* new Date().toISOString().split('T')[0]
TODAY == <<"2", "0", "2", "6", "-", "1", "1", "-", "0", "3">>

ALLOWED_TITLES ==
  << <<"r", "e", "f", "e", "r", "e", "n", "c", "e", "M", "a", "t", "e", "r", "i", "a", "l", "C", "e", "r", "t", "i", "f", "i", "c", "a", "t", "e">>,
     <<"c", "a", "l", "i", "b", "r", "a", "t", "i", "o", "n", "C", "e", "r", "t", "i", "f", "i", "c", "a", "t", "e">>,
     <<"m", "e", "a", "s", "u", "r", "e", "m", "e", "n", "t", "C", "e", "r", "t", "i", "f", "i", "c", "a", "t", "e">> >>

INITIAL_ID == [scheme |-> EMPTY, value |-> EMPTY, link |-> EMPTY]

INITIAL_PRODUCER ==
  [ uuid |-> EMPTY,
    name |-> EMPTY,
    email |-> EMPTY,
    phone |-> EMPTY,
    fax |-> EMPTY,
    address |-> [street |-> EMPTY, streetNo |-> EMPTY, postCode |-> EMPTY,
                 city |-> EMPTY, countryCode |-> EMPTY],
    organizationIdentifiers |-> <<INITIAL_ID>> ]

INITIAL_PERSON ==
  [ uuid |-> EMPTY,
    name |-> EMPTY,
    role |-> EMPTY,
    description |-> EMPTY,
    mainSigner |-> TRUE,
    cryptElectronicSeal |-> FALSE,
    cryptElectronicSignature |-> FALSE,
    cryptElectronicTimeStamp |-> FALSE ]

INITIAL_QUANTITY ==
  [ uuid |-> EMPTY,
    name |-> EMPTY,
    label |-> EMPTY,
    value |-> EMPTY,
    dsiValue |-> EMPTY,
    dsiUnit |-> EMPTY,
    quantityKind |-> EMPTY,
    unit |-> EMPTY,
    uncertainty |-> EMPTY,
    coverageFactor |-> <<"2", ".", "0">>,
    coverageProbability |-> <<"0", ".", "9", "5">>,
    distribution |-> <<"n", "o", "r", "m", "a", "l">>,
    identifiers |-> <<>> ]

INITIAL_DRMD ==
  [ administrativeData |->
      [ title |-> ALLOWED_TITLES[1],
        uniqueIdentifier |-> EMPTY,
        dataVersion |-> 0,
        documentIdentifiers |-> <<INITIAL_ID>>,
        validityType |-> <<"U", "n", "t", "i", "l", " ", "R", "e", "v", "o", "k", "e", "d">>,
        durationY |-> 0,
        durationM |-> 0,
        dateOfIssue |-> TODAY,
        specificTime |-> TODAY,
        producers |-> <<INITIAL_PRODUCER>>,
        responsiblePersons |-> <<INITIAL_PERSON>> ],
    materials |-> <<>>,
    properties |-> <<>>,
    statements |->
      [ official |->
          [ intendedUse |-> EMPTY,
            commutability |-> EMPTY,
            storageInformation |-> EMPTY,
            handlingInstructions |-> EMPTY,
            metrologicalTraceability |-> EMPTY,
            healthAndSafety |-> EMPTY,
            subcontractors |-> EMPTY,
            legalNotice |-> EMPTY,
            referenceToCertificationReport |-> EMPTY ],
        custom |-> <<>> ],
    comments |-> <<>>,
    documents |-> <<>> ]

-----------------------------------------------------------------------------
(* The validator (getValidationReport of App.tsx).  A message is the       *)
(* sequence of its words.                                                  *)

Issue(section, message) == [section |-> section, message |-> message]

\* `${i + 1}` for i + 1 < 10
NumWord(n) == Digits[n + 1]

\* list.forEach((x, i) => ...): the issues pushed for the elements of the
\* list, in list order
IssuesFrom(list, PerItem(_, _)) ==
  Flatten([i \in 1..Len(list) |-> PerItem(list[i], i)])

ProducerIssues(p, i) ==
  IF Falsy(Get(p, "name"))
  THEN <<Issue("Administrative",
               <<"Producer", NumWord(i), ":", "Name", "is", "required.">>)>>
  ELSE <<>>

MaterialIssues(m, i) ==
  (IF Falsy(Get(m, "name"))
   THEN <<Issue("Materials",
                <<"Material", NumWord(i), ":", "Name", "is", "required.">>)>>
   ELSE <<>>)
  \o
  (IF Falsy(Get(m, "minimumSampleSize"))
   THEN <<Issue("Materials",
                <<"Material", NumWord(i), ":", "Minimum", "Sample", "Size",
                  "is", "required.">>)>>
   ELSE <<>>)

\* the errors of the administrative data
AdministrativeErrors(admin) ==
  (IF Falsy(admin.title)
   THEN <<Issue("Administrative", <<"Document", "Title", "is", "missing.">>)>>
   ELSE <<>>)
  \o
  (IF Falsy(admin.uniqueIdentifier)
   THEN <<Issue("Administrative", <<"Unique", "Identifier", "is", "missing.">>)>>
   ELSE <<>>)
  \o
  (IF Len(admin.producers) = 0
   THEN <<Issue("Administrative",
                <<"At", "least", "one", "Producer", "is", "required.">>)>>
   ELSE IF Len(admin.producers) > 1
   THEN <<Issue("Administrative",
                <<"Only", "ONE", "Producer", "is", "allowed", "by", "schema.">>)>>
   ELSE IssuesFrom(admin.producers, ProducerIssues))

MaterialsErrors_Silent(materials) ==
  IssuesFrom(materials, MaterialIssues)

MaterialsErrors(materials) ==
  IF Len(materials) = 0
  THEN <<Issue("Materials",
               <<"At", "least", "one", "Material", "must", "be", "defined.">>)>>
  ELSE IssuesFrom(materials, MaterialIssues)

\* the errors of the statements the schema requires
StatementsErrors(st) ==
  (IF Falsy(st.intendedUse)
   THEN <<Issue("Statements", <<"Intended", "Use", "is", "required.">>)>>
   ELSE <<>>)
  \o
  (IF Falsy(st.storageInformation)
   THEN <<Issue("Statements", <<"Storage", "Information", "is", "required.">>)>>
   ELSE <<>>)
  \o
  (IF Falsy(st.handlingInstructions)
   THEN <<Issue("Statements",
                <<"Instructions", "for", "Handling", "and", "Use", "are",
                  "required.">>)>>
   ELSE <<>>)

PersonsWarnings(admin) ==
  IF Len(admin.responsiblePersons) = 0
  THEN <<Issue("Administrative",
               <<"No", "Responsible", "Persons", "defined", "(Warning).">>)>>
  ELSE <<>>

getValidationReport(d) ==
  [ errors |-> AdministrativeErrors(d.administrativeData)
               \o MaterialsErrors(d.materials)
               \o StatementsErrors(d.statements.official),
    warnings |-> PersonsWarnings(d.administrativeData) ]

\* const isValid = errors.length === 0
isValid(d) == Len(getValidationReport(d).errors) = 0

-----------------------------------------------------------------------------
(* Applying an extraction result (handleFileUpload of App.tsx).  The       *)
(* extracted data is a JSON object: any key may be absent.                 *)

\* { ...o, [k]: v }
With(o, k, v) == Spread(o, [x \in {k} |-> v])

\* s.includes(sub)
includes(s, sub) ==
  \E i \in 1..(Len(s) - Len(sub) + 1) : SubSeq(s, i, i + Len(sub) - 1) = sub

IsLowerOrDigit(c) == IsDigit(c) \/ \E i \in 1..Len(LowerChars) : LowerChars[i] = c

\* const normalizeName = s => s ? s.toLowerCase().replace(/[^a-z0-9]/g, "") : ""
normalizeName(s) ==
  IF Falsy(s) THEN EMPTY ELSE SelectSeq(toLowerCase(s), IsLowerOrDigit)

\* const cleanPostalCode = pc => pc ? pc.replace(/[^0-9]/g, '') : ""
cleanPostalCode(pc) ==
  IF Falsy(pc) THEN EMPTY ELSE SelectSeq(pc, IsDigit)

\* propDesc.match(/^(\d+\)|1\)|\*)/)
isFootnote(propDesc) ==
  \/ startsWith(propDesc, <<"*">>)
  \/ /\ DigitRun(propDesc, 1) > 0
     /\ DigitRun(propDesc, 1) < Len(propDesc)
     /\ propDesc[DigitRun(propDesc, 1) + 1] = ")"

\* a result name that looks like a unit header
IsFragmentName(rName) ==
  \/ includes(rName, <<"i", "n", " ", "m", "g", "/", "k", "g">>)
  \/ includes(rName, <<"i", "n", " ", "%">>)
  \/ rName = <<"m", "g", "/", "k", "g">>
  \/ rName = <<"%">>
  \/ rName = EMPTY

\* the test of the result merge
isFragment(r) == IsFragmentName(trim(toLowerCase(Or(Get(r, "name"), EMPTY))))

MergeQuantities_Front(first, r) ==
  IF Has(r, "quantities")
  THEN With(first, "quantities", r.quantities \o GetList(first, "quantities"))
  ELSE first

\* results[0].quantities.push(...r.quantities)
MergeQuantities(first, r) ==
  IF Has(r, "quantities")
  THEN With(first, "quantities", GetList(first, "quantities") \o r.quantities)
  ELSE first

\* results[0].description = (results[0].description || "") + "\n" + r.description
MergeDescription(first, r) ==
  IF ~Falsy(Get(r, "description"))
  THEN With(first, "description",
            Or(Get(first, "description"), EMPTY) \o <<"\n">> \o r.description)
  ELSE first

\* the body of p.results.forEach: r is merged into the first result of the
\* property or added as a table of its own
MergeResult(results, r) ==
  IF Len(results) > 0 /\ isFragment(r)
  THEN [results EXCEPT ![1] = MergeDescription(MergeQuantities(@, r), r)]
  ELSE Append(results, r)

RECURSIVE MergeResults(_, _)
MergeResults(results, rs) ==
  IF Len(rs) = 0 THEN results
  ELSE MergeResults(MergeResult(results, Head(rs)), Tail(rs))

\* the index in the property map of the entry with this key, 0 when the map
\* has none
RECURSIVE PropertyIndex(_, _, _)
PropertyIndex(propertyMap, propKey, i) ==
  IF i > Len(propertyMap) THEN 0
  ELSE IF propertyMap[i].key = propKey THEN i
  ELSE PropertyIndex(propertyMap, propKey, i + 1)

\* normalizeName(p.name || "Material Properties")
PropertyKey(p) == normalizeName(Or(Get(p, "name"), <<"M", "a", "t", "e", "r", "i", "a", "l", " ", "P", "r", "o", "p", "e", "r", "t", "i", "e", "s">>))

\* if (!propertyMap[propKey]) propertyMap[propKey] = { ...p, results: [] }
EnsureEntry(propertyMap, propKey, p) ==
  IF PropertyIndex(propertyMap, propKey, 1) = 0
  THEN Append(propertyMap, [key |-> propKey, p |-> With(p, "results", <<>>)])
  ELSE propertyMap

\* a description that is a footnote is cleared from the property of the map
ClearFootnote(propertyMap, k, footnote) ==
  IF footnote
  THEN [propertyMap EXCEPT ![k].p = With(@, "description", EMPTY)]
  ELSE propertyMap

\* ... and added to the description of the first result of p
InjectFootnote(results, propDesc, footnote) ==
  IF footnote /\ Len(results) > 0
  THEN [results EXCEPT ![1] =
          With(@, "description",
               (IF Falsy(Get(@, "description")) THEN EMPTY
                ELSE Get(@, "description") \o <<"\n">>) \o propDesc)]
  ELSE results

\* the results of p are merged into the entry k of the map
MergeEntry(propertyMap, k, p, propDesc, footnote) ==
  IF Has(p, "results")
  THEN [ClearFootnote(propertyMap, k, footnote) EXCEPT ![k].p =
          With(@, "results",
               MergeResults(@.results,
                            InjectFootnote(p.results, propDesc, footnote)))]
  ELSE ClearFootnote(propertyMap, k, footnote)

MergeDescribed(propertyMap, propKey, p, propDesc) ==
  MergeEntry(propertyMap, PropertyIndex(propertyMap, propKey, 1), p, propDesc,
             isFootnote(propDesc))

MergeKeyed(propertyMap, propKey, p) ==
  MergeDescribed(EnsureEntry(propertyMap, propKey, p), propKey, p,
                 trim(Or(Get(p, "description"), EMPTY)))

\* the body of properties.forEach.  The property map is the sequence of its
\* entries [key, p] in the order of insertion.
MergeProperty(propertyMap, p) == MergeKeyed(propertyMap, PropertyKey(p), p)

RECURSIVE MergeProperties(_, _)
MergeProperties(propertyMap, ps) ==
  IF Len(ps) = 0 THEN propertyMap
  ELSE MergeProperties(MergeProperty(propertyMap, Head(ps)), Tail(ps))

\* a key that Object.values lists before the others: an array index (of at
\* most nine digits)
IsIndexKey(key) ==
  /\ Len(key) > 0
  /\ \A i \in 1..Len(key) : IsDigit(key[i])
  /\ (Len(key) = 1 \/ key[1] # "0")
  /\ Len(key) <= 9

\* Object.values(propertyMap): the entries with an index key in ascending
\* numeric order, then the others in the order of insertion
ObjectValues(propertyMap) ==
  LET idx    == {i \in 1..Len(propertyMap) : IsIndexKey(propertyMap[i].key)}
      val(i) == DigitsValue(propertyMap[i].key, 1, Len(propertyMap[i].key))
      rank(i) == Cardinality({j \in idx : val(j) < val(i)}) + 1
      first  == [n \in 1..Cardinality(idx) |->
                   propertyMap[CHOOSE i \in idx : rank(i) = n].p]
      rest   == SelectSeq(propertyMap, LAMBDA e : ~IsIndexKey(e.key))
  IN  first \o [n \in 1..Len(rest) |-> rest[n].p]

\* the materials of the extraction, each with a generated uuid
NewMaterial(m, id) ==
  Spread(m,
    [ uuid |-> id,
      materialIdentifiers |-> <<INITIAL_ID>>,
      materialClass |-> Or(Get(m, "materialClass"), EMPTY),
      itemQuantities |-> Or(Get(m, "itemQuantities"), <<"1">>),
      minimumSampleSize |-> Or(Get(m, "minimumSampleSize"), EMPTY) ])

\* s.trim().startsWith('<') || s.trim().startsWith('>')
IsBound(s) == startsWith(trim(s), <<"<">>) \/ startsWith(trim(s), <<">">>)

\* a quantity with its final value and uncertainty and their D-SI pair
QuantityWith(q, id, finalValue, finalUncertainty, dsi) ==
  Spread(q,
    [ uuid |-> id,
      identifiers |-> <<INITIAL_ID>>,
      value |-> finalValue,
      unit |-> Or(Get(q, "unit"), EMPTY),
      uncertainty |-> finalUncertainty,
      coverageFactor |-> Or(Get(q, "coverageFactor"), <<"2", ".", "0">>),
      coverageProbability |-> Or(Get(q, "coverageProbability"), <<"0", ".", "9", "5">>),
      distribution |-> Or(Get(q, "distribution"), <<"n", "o", "r", "m", "a", "l">>),
      dsiValue |-> dsi.dsiValue,
      dsiUnit |-> dsi.dsiUnit ])

QuantityOf(q, id, finalValue, finalUncertainty) ==
  QuantityWith(q, id, finalValue, finalUncertainty,
               convertToDSI(finalValue, Get(q, "unit")))

\* an uncertainty that is a bound ("<0.05") of a quantity without a value
\* becomes its value
PromoteBound(q, id, value0, uncertainty0) ==
  IF Falsy(value0) /\ ~Falsy(uncertainty0) /\ IsBound(uncertainty0)
  THEN QuantityOf(q, id, uncertainty0, EMPTY)
  ELSE QuantityOf(q, id, value0, uncertainty0)

NewQuantity(q, id) ==
  PromoteBound(q, id, Or(Get(q, "value"), EMPTY), Or(Get(q, "uncertainty"), EMPTY))

\* the number of identifiers the materialization of a result generates
ResultCost(r) == Len(GetList(r, "quantities")) + 1

\* r.name && r.name.length > 1 ? r.name : "Values"
FinalName(r) ==
  IF ~Falsy(Get(r, "name")) /\ Len(r.name) > 1 THEN r.name ELSE <<"V", "a", "l", "u", "e", "s">>

NewQuantities(quantities, n) ==
  [i \in 1..Len(quantities) |-> NewQuantity(quantities[i], Uuid(n + i - 1))]

\* a result of the extraction: its quantities take the identifiers n, n + 1,
\* ... and the result the one after them
NewResult(r, n) ==
  Spread(r, [ name |-> FinalName(r),
              uuid |-> Uuid(n + Len(GetList(r, "quantities"))),
              quantities |-> NewQuantities(GetList(r, "quantities"), n) ])

RECURSIVE NewResults(_, _)
NewResults(rs, n) ==
  IF Len(rs) = 0 THEN <<>>
  ELSE <<NewResult(Head(rs), n)>> \o NewResults(Tail(rs), n + ResultCost(Head(rs)))

RECURSIVE ResultsCost(_)
ResultsCost(rs) ==
  IF Len(rs) = 0 THEN 0 ELSE ResultCost(Head(rs)) + ResultsCost(Tail(rs))

PropertyCost(p) == ResultsCost(GetList(p, "results")) + 1

NewProperty(p, n) ==
  Spread(p, [ uuid |-> Uuid(n + ResultsCost(GetList(p, "results"))),
              results |-> NewResults(GetList(p, "results"), n) ])

RECURSIVE NewProperties(_, _)
NewProperties(ps, n) ==
  IF Len(ps) = 0 THEN <<>>
  ELSE <<NewProperty(Head(ps), n)>>
       \o NewProperties(Tail(ps), n + PropertyCost(Head(ps)))

RECURSIVE PropertiesCost(_)
PropertiesCost(ps) ==
  IF Len(ps) = 0 THEN 0 ELSE PropertyCost(Head(ps)) + PropertiesCost(Tail(ps))

\* city.toLowerCase().includes("berlin") || ...includes("adlershof")
IsBerlin(city) ==
  \/ includes(toLowerCase(city), <<"b", "e", "r", "l", "i", "n">>)
  \/ includes(toLowerCase(city), <<"a", "d", "l", "e", "r", "s", "h", "o", "f">>)

ProducerAt(p, id, address) ==
  Spread(p,
    [ uuid |-> id,
      organizationIdentifiers |-> <<INITIAL_ID>>,
      address |->
        Spread(address,
          [ postCode |-> cleanPostalCode(Get(address, "postCode")),
            countryCode |->
              IF IsBerlin(Or(Get(address, "city"), EMPTY)) THEN <<"D", "E">>
              ELSE Or(Get(address, "countryCode"), EMPTY) ]) ])

NewProducer(p, id) == ProducerAt(p, id, GetObject(p, "address"))

NewPerson(p, id) ==
  Spread(INITIAL_PERSON,
    [ uuid |-> id,
      name |-> Or(Get(p, "name"), EMPTY),
      role |-> Or(Get(p, "role"), EMPTY),
      description |-> Or(Get(p, "description"), EMPTY) ])

\* Object.values(propertyMap) for the properties of the extraction
MergedProperties(extractedData) ==
  ObjectValues(MergeProperties(<<>>, GetList(extractedData, "properties")))

\* newList.length > 0 ? newList : prevList
NonEmptyOr_Always(newList, prevList) == newList

NonEmptyOr(newList, prevList) ==
  IF Len(newList) > 0 THEN newList ELSE prevList

\* the document that follows prev, given the lists of the extraction: the
\* materials take the identifiers from n, then the quantities, results and
\* properties, the producers and the persons, and last the document if it
\* has no unique identifier
ApplyLists(prev, extractedData, admin, mats, merged, prods, persons, n) ==
  LET n1 == n + Len(mats)
      n2 == n + Len(mats) + PropertiesCost(merged)
      n3 == n + Len(mats) + PropertiesCost(merged) + Len(prods)
      n4 == n + Len(mats) + PropertiesCost(merged) + Len(prods) + Len(persons)
      uid == Or(Get(admin, "uniqueIdentifier"),
                prev.administrativeData.uniqueIdentifier)
  IN  Spread(prev,
        [ administrativeData |->
            Spread(Spread(prev.administrativeData, admin),
              [ uniqueIdentifier |-> IF Falsy(uid) THEN Uuid(n4) ELSE uid,
                dateOfIssue |-> TODAY,
                documentIdentifiers |-> <<INITIAL_ID>>,
                producers |->
                  NonEmptyOr(
                    [i \in 1..Len(prods) |-> NewProducer(prods[i], Uuid(n2 + i - 1))],
                    prev.administrativeData.producers),
                responsiblePersons |->
                  NonEmptyOr(
                    [i \in 1..Len(persons) |-> NewPerson(persons[i], Uuid(n3 + i - 1))],
                    prev.administrativeData.responsiblePersons) ]),
          statements |->
            Spread(prev.statements,
              [ official |->
                  Spread(prev.statements.official,
                         GetObject(GetObject(extractedData, "statements"),
                                   "official")) ]),
          materials |->
            NonEmptyOr([i \in 1..Len(mats) |-> NewMaterial(mats[i], Uuid(n + i - 1))],
                       prev.materials),
          properties |-> NonEmptyOr(NewProperties(merged, n1), prev.properties) ])

ApplyAdmin(prev, extractedData, admin, n) ==
  ApplyLists(prev, extractedData, admin,
             GetList(extractedData, "materials"),
             MergedProperties(extractedData),
             GetList(admin, "producers"),
             GetList(admin, "responsiblePersons"),
             n)

\* the updater that handleFileUpload passes to setDrmdData: the document
\* that follows prev, with n the number of the next identifier
ApplyExtraction(prev, extractedData, n) ==
  ApplyAdmin(prev, extractedData, GetObject(extractedData, "administrativeData"), n)

CostOfLists(prev, admin, mats, merged) ==
  Len(mats) + PropertiesCost(merged)
  + Len(GetList(admin, "producers"))
  + Len(GetList(admin, "responsiblePersons"))
  + (IF Falsy(Or(Get(admin, "uniqueIdentifier"),
                 prev.administrativeData.uniqueIdentifier))
     THEN 1 ELSE 0)

\* the number of identifiers ApplyExtraction generates
ApplyExtractionCost(prev, extractedData) ==
  CostOfLists(prev, GetObject(extractedData, "administrativeData"),
              GetList(extractedData, "materials"),
              MergedProperties(extractedData))

-----------------------------------------------------------------------------
(* The normalizations handleFileUpload applies to the extracted data       *)
(* before the document is updated.                                         *)

\* o.f || 0 for a number
GetNumber(o, f) == IF f \in DOMAIN o THEN o[f] ELSE 0

\* durationY = Math.floor(totalMonths / 12), durationM = totalMonths % 12
CarryMonths_Kept(admin, totalMonths) == admin
CarryMonths(admin, totalMonths) ==
  IF totalMonths > 0
  THEN Spread(admin, [ durationY |-> totalMonths \div 12,
                       durationM |-> totalMonths % 12 ])
  ELSE admin

\* the duration of a "Time After Dispatch" validity, carried to years and
\* months when it is positive
NormalizeDuration(admin) ==
  IF Get(admin, "validityType") = <<"T", "i", "m", "e", " ", "A", "f", "t", "e", "r", " ", "D", "i", "s", "p", "a", "t", "c", "h">>
  THEN CarryMonths(admin,
                   (GetNumber(admin, "durationY") * 12) + GetNumber(admin, "durationM"))
  ELSE admin

IsLeapYear(y) == (y % 4 = 0 /\ y % 100 # 0) \/ y % 400 = 0

DaysInMonth(y, m) ==
  IF m = 2 THEN (IF IsLeapYear(y) THEN 29 ELSE 28)
  ELSE IF m \in {4, 6, 9, 11} THEN 30
  ELSE 31

\* new Date(year, month, 0).getDate(): the last day of the month before the
\* month with index `month`; a year below 100 counts from 1900 and a month
\* index outside 0..11 carries into the year
LastDayOfMonth(year, month) ==
  LET y0    == IF year < 100 THEN 1900 + year ELSE year
      total == y0 * 12 + (month - 1)
  IN  DaysInMonth(total \div 12, (total % 12) + 1)

\* s.padStart(2, '0')
padStart2(s) == IF Len(s) < 2 THEN Zeros(2 - Len(s)) \o s ELSE s

\* raw.match(/^(\d{1,2})\/(\d{4})$/) with a month group of n digits
MatchesMonthYear(raw, n) ==
  /\ n \in {1, 2}
  /\ Len(raw) = n + 5
  /\ raw[n + 1] = "/"
  /\ DigitRun(raw, n + 2) = 4

\* `${year}-${match[1].padStart(2, '0')}-${lastDay}`
EndOfMonth(monthChars, month, year) ==
  IntToChars(year) \o <<"-">> \o padStart2(monthChars) \o <<"-">>
    \o IntToChars(LastDayOfMonth(year, month))

SpecificTimeOf(admin, raw, n) ==
  IF MatchesMonthYear(raw, n)
  THEN With(admin, "specificTime",
            EndOfMonth(SubSeq(raw, 1, n), DigitsValue(raw, 1, n),
                       DigitsValue(raw, n + 2, 4)))
  ELSE admin

SpecificTimeTrimmed(admin, raw) == SpecificTimeOf(admin, raw, DigitRun(raw, 1))

\* a "Specific Time" validity given as MM/YYYY becomes the last day of that
\* month
NormalizeSpecificTime(admin) ==
  IF /\ Get(admin, "validityType") = <<"S", "p", "e", "c", "i", "f", "i", "c", " ", "T", "i", "m", "e">>
     /\ ~Falsy(Get(admin, "specificTime"))
  THEN SpecificTimeTrimmed(admin, trim(admin.specificTime))
  ELSE admin

\* the producers of Berlin or Adlershof get the country code DE
FixCountry(p) ==
  IF IsBerlin(Or(Get(GetObject(p, "address"), "city"), EMPTY))
  THEN With(p, "address", With(GetObject(p, "address"), "countryCode", <<"D", "E">>))
  ELSE p

NormalizeProducers(admin) ==
  IF Has(admin, "producers")
  THEN With(admin, "producers",
            [i \in 1..Len(admin.producers) |-> FixCountry(admin.producers[i])])
  ELSE admin

\* the extracted data as the updater sees it
NormalizeExtracted(extractedData) ==
  IF Has(extractedData, "administrativeData")
  THEN With(extractedData, "administrativeData",
            NormalizeProducers(NormalizeSpecificTime(NormalizeDuration(
              extractedData.administrativeData))))
  ELSE extractedData

\* the post-processing of extractStructuredDataFromPdf: every quantity of
\* the parsed response gets its D-SI value and unit
WithDsi(q, dsi) ==
  Spread(q, [dsiValue |-> dsi.dsiValue, dsiUnit |-> dsi.dsiUnit])

PostProcessQuantity(q) == WithDsi(q, convertToDSI(Get(q, "value"), Get(q, "unit")))

PostProcessResult(r) ==
  IF Has(r, "quantities")
  THEN With(r, "quantities",
            [i \in 1..Len(r.quantities) |-> PostProcessQuantity(r.quantities[i])])
  ELSE r

PostProcessProperty(p) ==
  IF Has(p, "results")
  THEN With(p, "results",
            [i \in 1..Len(p.results) |-> PostProcessResult(p.results[i])])
  ELSE p

extractStructuredDataFromPdf(parsedData) ==
  IF Has(parsedData, "properties")
  THEN With(parsedData, "properties",
            [i \in 1..Len(parsedData.properties) |->
               PostProcessProperty(parsedData.properties[i])])
  ELSE parsedData


\* the results of p once its footnote description is added to the first
Injected(p, propDesc) == InjectFootnote(p.results, propDesc, isFootnote(propDesc))

\* the first result of property i is the one the map entry of its key holds
\* as results[0]: no earlier property of that key had a result
HoldsFirst(ps, i) ==
  /\ Len(GetList(ps[i], "results")) > 0
  /\ \A k \in 1..(i - 1) :
       PropertyKey(ps[k]) = PropertyKey(ps[i]) => Len(GetList(ps[k], "results")) = 0

\* the results of property i of the payload after the merge loop, which
\* assigns to p.results[0].description and pushes into and assigns to
\* propertyMap[propKey].results[0], an object of the payload
ResultsAfter(ps, i, propertyMap) ==
  IF HoldsFirst(ps, i)
  THEN [Injected(ps[i], trim(Or(Get(ps[i], "description"), EMPTY))) EXCEPT
          ![1] = propertyMap[PropertyIndex(propertyMap, PropertyKey(ps[i]), 1)]
                   .p.results[1]]
  ELSE Injected(ps[i], trim(Or(Get(ps[i], "description"), EMPTY)))

PropertiesAfter(ps, propertyMap) ==
  [i \in 1..Len(ps) |->
     IF Has(ps[i], "results")
     THEN With(ps[i], "results", ResultsAfter(ps, i, propertyMap))
     ELSE ps[i]]

\* what the payload holds when the handler is done: extracted is the payload
\* as the assignments before the updater leave it
PayloadAfter(extracted) ==
  IF Has(extracted, "properties")
  THEN With(extracted, "properties",
            PropertiesAfter(extracted.properties,
                            MergeProperties(<<>>, extracted.properties)))
  ELSE extracted
-----------------------------------------------------------------------------
(* The responses of the extraction service the uploads draw from.          *)

\* a complete certificate: identifiers supplied by the input, a producer in
\* Berlin, a duration given in months, a property with a footnote and a
\* unit-header table, and a second property of the same normalized name
FullResponse ==
  [ administrativeData |->
      [ title |-> ALLOWED_TITLES[1],
        validityType |-> <<"T", "i", "m", "e", " ", "A", "f", "t", "e", "r", " ", "D", "i", "s", "p", "a", "t", "c", "h">>,
        durationY |-> 0,
        durationM |-> 18,
        producers |->
          << [ uuid |-> <<"i", "n", "-", "1">>,
               name |-> <<"B", "A", "M">>,
               address |-> [ city |-> <<"B", "e", "r", "l", "i", "n">>, postCode |-> <<"D", "-", "1", "2", "4", "8", "9">> ] ] >>,
        responsiblePersons |->
          << [ uuid |-> <<"i", "n", "-", "2">>, name |-> <<"A", ".", " ", "B", ".">>, role |-> <<"H", "e", "a", "d">> ] >> ],
    materials |->
      << [ uuid |-> <<"i", "n", "-", "3">>,
           name |-> <<"S", "t", "e", "e", "l">>,
           minimumSampleSize |-> <<"4", ".", "9", " ", "g">> ] >>,
    properties |->
      << [ name |-> <<"M", "a", "s", "s", " ", "f", "r", "a", "c", "t", "i", "o", "n">>,
           description |-> <<"1", ")", " ", "k", " ", "=", " ", "2">>,
           isCertified |-> TRUE,
           results |->
             << [ name |-> <<"C", "e", "r", "t", "i", "f", "i", "e", "d", " ", "v", "a", "l", "u", "e", "s">>,
                  description |-> <<"T", "a", "b", "l", "e", " ", "1">>,
                  quantities |->
                    << [ uuid |-> <<"i", "n", "-", "4">>,
                         name |-> <<"C">>,
                         value |-> <<"4", ".", "9">>,
                         unit |-> <<"g">>,
                         uncertainty |-> <<"0", ".", "1">> ] >> ],
                [ name |-> <<"i", "n", " ", "m", "g", "/", "k", "g">>,
                  description |-> <<"T", "a", "b", "l", "e", " ", "2">>,
                  quantities |->
                    << [ name |-> <<"P", "b">>,
                         uncertainty |-> <<"<", "0", ".", "0", "5">>,
                         unit |-> <<"m", "g", "/", "k", "g">> ] >> ] >> ],
         [ name |-> <<"m", "a", "s", "s", "-", "f", "r", "a", "c", "t", "i", "o", "n">>,
           description |-> <<"i", "n", "f", "o", "r", "m", "a", "t", "i", "v", "e">>,
           isCertified |-> FALSE,
           results |->
             << [ name |-> <<"I", "n", "f", "o", "r", "m", "a", "t", "i", "v", "e", " ", "v", "a", "l", "u", "e", "s">>,
                  quantities |-> << >> ] >> ] >>,
    statements |->
      [ official |->
          [ intendedUse |-> <<"c", "a", "l", "i", "b", "r", "a", "t", "i", "o", "n">>,
            storageInformation |-> <<"d", "r", "y">>,
            handlingInstructions |-> <<"m", "i", "x">> ] ] ]

\* a certificate without materials and properties
NoMaterialsResponse ==
  [ administrativeData |->
      [ validityType |-> <<"S", "p", "e", "c", "i", "f", "i", "c", " ", "T", "i", "m", "e">>,
        specificTime |-> <<"0", "2", "/", "2", "0", "2", "4">>,
        producers |-> << [ name |-> <<"N", "I", "S", "T">> ] >>,
        responsiblePersons |-> << >> ],
    materials |-> << >>,
    statements |->
      [ official |->
          [ intendedUse |-> <<"c", "a", "l", "i", "b", "r", "a", "t", "i", "o", "n">>,
            storageInformation |-> <<"d", "r", "y">>,
            handlingInstructions |-> <<"m", "i", "x">> ] ] ]

\* a response with empty lists and two producers, one of them unnamed
TwoProducersResponse ==
  [ administrativeData |->
      [ title |-> EMPTY,
        producers |-> << [ name |-> <<"B", "A", "M">> ], [ name |-> EMPTY ] >> ],
    materials |-> << [ uuid |-> <<"i", "n", "-", "1">> ] >>,
    properties |-> << >> ]

Responses ==
  << FullResponse, NoMaterialsResponse, TwoProducersResponse, EmptyObject >>

-----------------------------------------------------------------------------
(* The application (the App component of App.tsx).  The active tab and the *)
(* status message, which choose what is displayed, are left out.           *)

MaxEdits == 2

MaxUploads == 1

\* the uploads of the specification of overlapping uploads
MaxOverlap == 2

EditNames == {EMPTY, <<"B", "A", "M">>}

EditSizes == {EMPTY, <<"4", ".", "9", " ", "g">>}

EditValues == {EMPTY, <<"2">>}

EditUnits == {EMPTY, <<"l", "b">>}

EditTexts == {EMPTY, <<"d", "r", "y">>}

ApiKeys == {EMPTY, <<"k", "e", "y">>}

RequiredStatements == {"intendedUse", "storageInformation", "handlingInstructions"}

NoKeyError ==
  <<"Please", "enter", "a", "Google", "Gemini", "API", "Key", "in", "Settings.">>

ExtractionError == <<"Extraction", "failed.">>

NoExport == [control |-> "none", errors |-> 0]

AppInit ==
  /\ drmdData = INITIAL_DRMD
  /\ geminiApiKey = EMPTY
  /\ pdfUrl = NULL
  /\ isProcessing = FALSE
  /\ error = NULL
  /\ pending = {}
  /\ nextUuid = 1
  /\ mounted = FALSE
  /\ exported = NoExport
  /\ edits = 0
  /\ uploads = 0
  /\ initialDrmd = INITIAL_DRMD
  /\ prevData = NULL
  /\ payload = NULL

\* the effect that runs once after the first render
Mount ==
  /\ ~mounted
  /\ mounted' = TRUE
  /\ IF Falsy(drmdData.administrativeData.uniqueIdentifier)
     THEN /\ drmdData' = [drmdData EXCEPT
                 !.administrativeData.uniqueIdentifier = Uuid(nextUuid)]
          /\ initialDrmd' = [initialDrmd EXCEPT
                 !.administrativeData.uniqueIdentifier = Uuid(nextUuid)]
          /\ nextUuid' = nextUuid + 1
     ELSE UNCHANGED <<drmdData, initialDrmd, nextUuid>>
  /\ prevData' = drmdData'
  /\ UNCHANGED <<cvVars, cdVars, mgVars, vlVars, geminiApiKey, pdfUrl, isProcessing, error, pending, exported,
                 edits, uploads, payload>>

\* a user edit of the document: d is the document that follows, n the number
\* of identifiers generated
Edited(d, n) ==
  /\ mounted
  /\ edits < MaxEdits
  /\ drmdData' = d
  /\ nextUuid' = nextUuid + n
  /\ edits' = edits + 1
  /\ UNCHANGED <<cvVars, cdVars, mgVars, vlVars, geminiApiKey, pdfUrl, isProcessing, error, pending, mounted,
                 exported, uploads, payload>>

\* an edit whose handler builds the changed part of the tree anew
Edit(d, n) ==
  /\ Edited(d, n)
  /\ prevData' = drmdData
  /\ UNCHANGED initialDrmd

\* an edit whose handler copies a list of the tree and assigns into an
\* element of the copy or into a list below it: the element is the one the
\* previous tree holds; initial is what INITIAL_DRMD holds afterwards
EditInPlace(d, n, initial) ==
  /\ Edited(d, n)
  /\ prevData' = d
  /\ initialDrmd' = initial

SetGeminiApiKey ==
  /\ mounted
  /\ \E k \in ApiKeys :
       /\ k # geminiApiKey
       /\ geminiApiKey' = k
  /\ UNCHANGED <<cvVars, cdVars, mgVars, vlVars, heldVars, drmdData, pdfUrl, isProcessing, error, pending, nextUuid,
                 mounted, exported, edits, uploads>>

\* handleFileUpload without an API key
UploadWithoutKey ==
  /\ mounted
  /\ Falsy(geminiApiKey)
  /\ error' = NoKeyError
  /\ UNCHANGED <<cvVars, cdVars, mgVars, vlVars, heldVars, drmdData, geminiApiKey, pdfUrl, isProcessing, pending,
                 nextUuid, mounted, exported, edits, uploads>>

\* handleFileUpload of file f: the file is read and the extraction requested;
\* at most limit uploads are started
FileUpload(limit) ==
  /\ mounted
  /\ ~Falsy(geminiApiKey)
  /\ uploads < limit
  /\ \E f \in 1..Len(Responses) :
       /\ f \notin pending
       /\ pdfUrl' = <<"blob", Digits[f + 1]>>
       /\ pending' = pending \cup {f}
  /\ error' = NULL
  /\ isProcessing' = TRUE
  /\ uploads' = uploads + 1
  /\ UNCHANGED <<cvVars, cdVars, mgVars, vlVars, heldVars, drmdData, geminiApiKey, nextUuid, mounted, exported, edits>>

HandleFileUpload == FileUpload(MaxUploads)

\* the document is updated with the extracted data
UpdateDocument(extracted) ==
  /\ drmdData' = ApplyExtraction(drmdData, extracted, nextUuid)
  /\ nextUuid' = nextUuid + ApplyExtractionCost(drmdData, extracted)
  /\ prevData' = drmdData
  /\ payload' = PayloadAfter(extracted)

\* the extraction of a file resolves: the body of the try block and the
\* finally block of reader.onloadend
ExtractionResolves ==
  /\ \E f \in pending :
       /\ UpdateDocument(
            NormalizeExtracted(extractStructuredDataFromPdf(Responses[f])))
       /\ pending' = pending \ {f}
  /\ isProcessing' = FALSE
  /\ UNCHANGED <<cvVars, cdVars, mgVars, vlVars, geminiApiKey, pdfUrl, error, mounted, exported, edits, uploads,
                 initialDrmd>>

\* the extraction of a file is rejected: the catch block and the finally
\* block
ExtractionRejects ==
  /\ \E f \in pending : pending' = pending \ {f}
  /\ error' = ExtractionError
  /\ isProcessing' = FALSE
  /\ UNCHANGED <<cvVars, cdVars, mgVars, vlVars, heldVars, drmdData, geminiApiKey, pdfUrl, nextUuid, mounted, exported,
                 edits, uploads>>

\* the file cannot be read: reader.result is null and onloadend throws before
\* the try block
ReaderFails ==
  /\ \E f \in pending : pending' = pending \ {f}
  /\ UNCHANGED <<cvVars, cdVars, mgVars, vlVars, heldVars, drmdData, geminiApiKey, pdfUrl, isProcessing, error, nextUuid,
                 mounted, exported, edits, uploads>>

\* the title select of the administrative tab
SetTitle ==
  \E i \in 1..Len(ALLOWED_TITLES) :
    /\ ALLOWED_TITLES[i] # drmdData.administrativeData.title
    /\ Edit([drmdData EXCEPT !.administrativeData.title = ALLOWED_TITLES[i]], 0)

SetUniqueIdentifier ==
  \E v \in EditNames :
    /\ v # drmdData.administrativeData.uniqueIdentifier
    /\ Edit([drmdData EXCEPT !.administrativeData.uniqueIdentifier = v], 0)

\* the button that generates a new unique identifier
RegenerateUniqueIdentifier ==
  Edit([drmdData EXCEPT !.administrativeData.uniqueIdentifier = Uuid(nextUuid)], 1)

AddProducer ==
  Edit([drmdData EXCEPT !.administrativeData.producers =
          Append(@, With(INITIAL_PRODUCER, "uuid", Uuid(nextUuid)))], 1)

RemoveProducer ==
  \E idx \in 1..Len(drmdData.administrativeData.producers) :
    /\ Len(drmdData.administrativeData.producers) > 1
    /\ Edit([drmdData EXCEPT !.administrativeData.producers = RemoveAt(@, idx)], 0)

\* the producer without identifier is the one INITIAL_DRMD holds
InitialWithProducerName(initial, producer, v) ==
  IF Get(producer, "uuid") = EMPTY
  THEN [initial EXCEPT !.administrativeData.producers[1] = With(@, "name", v)]
  ELSE initial

SetProducerName ==
  \E idx \in 1..Len(drmdData.administrativeData.producers), v \in EditNames :
    /\ v # Get(drmdData.administrativeData.producers[idx], "name")
    /\ EditInPlace([drmdData EXCEPT !.administrativeData.producers[idx] =
                      With(@, "name", v)], 0,
                   InitialWithProducerName(
                     initialDrmd, drmdData.administrativeData.producers[idx], v))

AddPerson ==
  Edit([drmdData EXCEPT !.administrativeData.responsiblePersons =
          Append(@, With(INITIAL_PERSON, "uuid", Uuid(nextUuid)))], 1)

RemovePerson ==
  \E idx \in 1..Len(drmdData.administrativeData.responsiblePersons) :
    /\ Len(drmdData.administrativeData.responsiblePersons) > 1
    /\ Edit([drmdData EXCEPT !.administrativeData.responsiblePersons =
               RemoveAt(@, idx)], 0)

\* the material the Add Material button appends
NewBlankMaterial(id) ==
  [ uuid |-> id,
    name |-> EMPTY,
    description |-> EMPTY,
    materialClass |-> EMPTY,
    itemQuantities |-> EMPTY,
    minimumSampleSize |-> EMPTY,
    isCertified |-> FALSE,
    materialIdentifiers |-> <<INITIAL_ID>> ]

AddMaterial ==
  Edit([drmdData EXCEPT !.materials = Append(@, NewBlankMaterial(Uuid(nextUuid)))], 1)

RemoveMaterial_Unguarded ==
  \E idx \in 1..Len(drmdData.materials) :
    Edit([drmdData EXCEPT !.materials = RemoveAt(@, idx)], 0)
RemoveMaterial ==
  \E idx \in 1..Len(drmdData.materials) :
    /\ Len(drmdData.materials) > 1
    /\ Edit([drmdData EXCEPT !.materials = RemoveAt(@, idx)], 0)

SetMaterialName ==
  \E idx \in 1..Len(drmdData.materials), v \in EditNames :
    /\ v # Get(drmdData.materials[idx], "name")
    /\ EditInPlace([drmdData EXCEPT !.materials[idx] = With(@, "name", v)], 0, initialDrmd)

SetMinimumSampleSize ==
  \E idx \in 1..Len(drmdData.materials), v \in EditSizes :
    /\ v # Get(drmdData.materials[idx], "minimumSampleSize")
    /\ EditInPlace([drmdData EXCEPT !.materials[idx] =
               With(@, "minimumSampleSize", v)], 0, initialDrmd)

\* the text areas of the statements the schema requires
SetOfficialStatement ==
  \E field \in RequiredStatements, v \in EditTexts :
    /\ v # drmdData.statements.official[field]
    /\ Edit([drmdData EXCEPT !.statements.official[field] = v], 0)

\* the property set the Add Property Set button appends
NewBlankProperty(id) ==
  [ uuid |-> id,
    id |-> EMPTY,
    name |-> <<"N", "e", "w", " ", "P", "r", "o", "p", "e", "r", "t", "y", " ", "S", "e", "t">>,
    isCertified |-> TRUE,
    description |-> EMPTY,
    procedures |-> EMPTY,
    results |-> << >> ]

AddProperty ==
  Edit([drmdData EXCEPT !.properties = Append(@, NewBlankProperty(Uuid(nextUuid)))], 1)

RemoveProperty ==
  \E pIdx \in 1..Len(drmdData.properties) :
    Edit([drmdData EXCEPT !.properties = RemoveAt(@, pIdx)], 0)

RemoveResult ==
  \E pIdx \in 1..Len(drmdData.properties) :
    \E rIdx \in 1..Len(drmdData.properties[pIdx].results) :
      EditInPlace([drmdData EXCEPT !.properties[pIdx].results = RemoveAt(@, rIdx)], 0, initialDrmd)

\* the Add Row button of a result table
AddQuantity ==
  \E pIdx \in 1..Len(drmdData.properties) :
    \E rIdx \in 1..Len(drmdData.properties[pIdx].results) :
      EditInPlace([drmdData EXCEPT !.properties[pIdx].results[rIdx].quantities =
              Append(@, Spread(INITIAL_QUANTITY,
                               [uuid |-> Uuid(nextUuid), identifiers |-> << >>]))], 1, initialDrmd)

RemoveQuantity ==
  \E pIdx \in 1..Len(drmdData.properties) :
    \E rIdx \in 1..Len(drmdData.properties[pIdx].results) :
      \E qIdx \in 1..Len(drmdData.properties[pIdx].results[rIdx].quantities) :
        EditInPlace([drmdData EXCEPT !.properties[pIdx].results[rIdx].quantities =
                RemoveAt(@, qIdx)], 0, initialDrmd)

\* a quantity row whose value and unit are now v and u: the D-SI pair is
\* computed again
EditedQuantity(q, v, u, dsi) ==
  Spread(q, [ value |-> v, unit |-> u,
              dsiValue |-> dsi.dsiValue, dsiUnit |-> dsi.dsiUnit ])

Recomputed(q, v, u) == EditedQuantity(q, v, u, convertToDSI(v, u))

\* the value input of a quantity row
SetQuantityValue ==
  \E pIdx \in 1..Len(drmdData.properties) :
    \E rIdx \in 1..Len(drmdData.properties[pIdx].results) :
      \E qIdx \in 1..Len(drmdData.properties[pIdx].results[rIdx].quantities) :
        \E v \in EditValues :
          /\ v # drmdData.properties[pIdx].results[rIdx].quantities[qIdx].value
          /\ EditInPlace([drmdData EXCEPT
                     !.properties[pIdx].results[rIdx].quantities[qIdx] =
                       Recomputed(@, v, @.unit)], 0, initialDrmd)

\* the unit input of a quantity row
SetQuantityUnit ==
  \E pIdx \in 1..Len(drmdData.properties) :
    \E rIdx \in 1..Len(drmdData.properties[pIdx].results) :
      \E qIdx \in 1..Len(drmdData.properties[pIdx].results[rIdx].quantities) :
        \E u \in EditUnits :
          /\ u # drmdData.properties[pIdx].results[rIdx].quantities[qIdx].unit
          /\ EditInPlace([drmdData EXCEPT
                     !.properties[pIdx].results[rIdx].quantities[qIdx] =
                       Recomputed(@, @.value, u)], 0, initialDrmd)

AddCustomStatement ==
  Edit([drmdData EXCEPT !.statements.custom =
          Append(@, [uuid |-> Uuid(nextUuid), name |-> EMPTY, content |-> EMPTY])],
       1)

RemoveCustomStatement ==
  \E idx \in 1..Len(drmdData.statements.custom) :
    Edit([drmdData EXCEPT !.statements.custom = RemoveAt(@, idx)], 0)

\* handleExport: the download of the XML of the current document
handleExport(control) ==
  /\ mounted
  /\ exported' = [ control |-> control,
                   errors |-> Len(getValidationReport(drmdData).errors) ]
  /\ UNCHANGED <<cvVars, cdVars, mgVars, vlVars, heldVars, drmdData, geminiApiKey, pdfUrl, isProcessing, error, pending,
                 nextUuid, mounted, edits, uploads>>

\* the Download button of the Validate & Export tab, disabled unless the
\* report has no error
DownloadFromValidateTab ==
  /\ isValid(drmdData)
  /\ handleExport("Download DRMD XML")

\* the Export XML button of the header
ExportFromHeader == handleExport("Export XML")

AppNext ==
  \/ Mount
  \/ SetGeminiApiKey
  \/ UploadWithoutKey
  \/ HandleFileUpload
  \/ ExtractionResolves
  \/ ExtractionRejects
  \/ ReaderFails
  \/ SetTitle
  \/ SetUniqueIdentifier
  \/ RegenerateUniqueIdentifier
  \/ AddProducer
  \/ RemoveProducer
  \/ SetProducerName
  \/ AddPerson
  \/ RemovePerson
  \/ AddMaterial
  \/ RemoveMaterial
  \/ SetMaterialName
  \/ SetMinimumSampleSize
  \/ SetOfficialStatement
  \/ AddProperty
  \/ RemoveProperty
  \/ RemoveResult
  \/ AddQuantity
  \/ RemoveQuantity
  \/ SetQuantityValue
  \/ SetQuantityUnit
  \/ AddCustomStatement
  \/ RemoveCustomStatement
  \/ DownloadFromValidateTab
  \/ ExportFromHeader

\* a PDF is uploaded while the extraction of another may be in flight: the
\* Upload PDF button of the header is enabled at all times
OverlappingUpload == FileUpload(MaxOverlap)

\* the uploads of the application and what follows them, without the edits
UploadsNext ==
  \/ Mount
  \/ SetGeminiApiKey
  \/ OverlappingUpload
  \/ ExtractionResolves
  \/ ExtractionRejects
  \/ ReaderFails

-----------------------------------------------------------------------------
(* The merge of the extracted properties (the updater of handleFileUpload) *)
(* applied to payloads of up to MaxIncoming properties.                    *)

MaxIncoming == 3

IncomingQuantity(name) == [ name |-> name, value |-> <<"1">>, unit |-> <<"%">> ]

\* the result lists of an incoming property: a table, a unit header, two
\* fragments of which the first has no name, another table, no result, and
\* a unit header without quantities
IncomingResults ==
  { << [ name |-> <<"C", "e", "r", "t", "i", "f", "i", "e", "d", " ", "v", "a", "l", "u", "e", "s">>,
         quantities |-> <<IncomingQuantity(<<"C">>), IncomingQuantity(<<"S", "i">>)>> ] >>,
    << [ name |-> <<"V", "a", "l", "u", "e", "s", " ", "i", "n", " ", "m", "g", "/", "k", "g">>,
         description |-> <<"d", "r", "y", " ", "m", "a", "s", "s">>,
         quantities |-> <<IncomingQuantity(<<"P", "b">>)>> ] >>,
    << [ quantities |-> <<IncomingQuantity(<<"M", "n">>)>> ],
       [ name |-> <<" ", "%", " ">>,
         quantities |-> <<IncomingQuantity(<<"C", "r">>)>> ] >>,
    << [ name |-> <<"I", "n", "f", "o", "r", "m", "a", "t", "i", "v", "e", " ", "v", "a", "l", "u", "e", "s">>,
         quantities |-> <<IncomingQuantity(<<"N", "i">>)>> ] >>,
    << >>,
    << [ name |-> <<"i", "n", " ", "%">> ] >> }

\* the incoming properties: two names of one normalized key with each of the
\* result lists, one of them without results at all, properties of that key
\* with a description, with footnotes, and a property of another key
IncomingProperties ==
  { [ name |-> n, results |-> rs ] :
      n \in { <<"M", "a", "s", "s", " ", "f", "r", "a", "c", "t", "i", "o", "n">>, <<"m", "a", "s", "s", "-", "f", "r", "a", "c", "t", "i", "o", "n">> }, rs \in IncomingResults }
  \cup { [ name |-> <<"M", "a", "s", "s", " ", "F", "r", "a", "c", "t", "i", "o", "n">>, description |-> <<"*", ")", " ", "k", " ", "=", " ", "2">> ],
         [ name |-> <<"M", "a", "s", "s", " ", "f", "r", "a", "c", "t", "i", "o", "n">>,
           description |-> <<"b", "y", " ", "I", "C", "P", "-", "M", "S">>,
           procedures |-> <<"I", "C", "P", "-", "M", "S">>,
           isCertified |-> TRUE,
           results |-> << [ name |-> <<"C", "e", "r", "t", "i", "f", "i", "e", "d", " ", "v", "a", "l", "u", "e", "s">>,
                            quantities |-> <<IncomingQuantity(<<"C">>)>> ] >> ],
         [ name |-> <<"M", "a", "s", "s", " ", "F", "r", "a", "c", "t", "i", "o", "n">>,
           description |-> <<" ", "2", ")", " ", "k", " ", "=", " ", "2", " ">>,
           isCertified |-> FALSE,
           results |-> << [ name |-> <<"C", "e", "r", "t", "i", "f", "i", "e", "d", " ", "v", "a", "l", "u", "e", "s">>,
                            description |-> <<"T", "a", "b", "l", "e", " ", "1">>,
                            quantities |-> <<IncomingQuantity(<<"F", "e">>)>> ] >> ],
         [ name |-> <<"m", "a", "s", "s", " ", "f", "r", "a", "c", "t", "i", "o", "n">>,
           description |-> <<"*", ")", " ", "i", "n", "f", "o", "r", "m", "a", "t", "i", "v", "e">>,
           results |-> << [ name |-> <<"i", "n", " ", "%">>,
                            quantities |-> <<IncomingQuantity(<<"Z", "n">>)>> ] >> ],
         [ name |-> <<"D", "e", "n", "s", "i", "t", "y">>,
           results |-> << [ name |-> <<"V", "a", "l", "u", "e", "s">>,
                            quantities |-> <<IncomingQuantity(<<"r", "h", "o">>)>> ] >> ] }

SequencesOf(S, n) == UNION { [1..k -> S] : k \in 1..n }

MergeIdle ==
  /\ mgProps = <<>>
  /\ mgOut = <<>>
  /\ mgPhase = "idle"

MergeInit ==
  /\ mgProps \in SequencesOf(IncomingProperties, MaxIncoming)
  /\ mgOut = <<>>
  /\ mgPhase = "payload"

\* newProps of the updater for a payload with these properties
Normalize ==
  /\ mgPhase = "payload"
  /\ mgOut' = NewProperties(MergedProperties([properties |-> mgProps]), 1)
  /\ mgPhase' = "merged"
  /\ UNCHANGED <<cvVars, appVars, cdVars, vlVars, mgProps>>

MergeNext == Normalize

-----------------------------------------------------------------------------
(* The converter as a specification: one call on an input (value, unit),   *)
(* then a second call on the result of the first.                          *)

ConvValues ==
  { NULL,
    EMPTY,
    <<"4", ".", "9">>,
    <<"2">>,
    <<"<", "0", ".", "0", "5">>,
    <<" ", "5", " ">>,
    <<"a", "b", "c">>,
    <<"1", "e", "3">>,
    <<"1", "2", "5", "0">> }

ConvUnits ==
  { NULL,
    EMPTY,
    <<"g">>,
    <<"%">>,
    <<"l", "b">>,
    <<"t">>,
    <<"p", "p", "b">>,
    <<"k", "g">>,
    <<"m", "g", "/", "k", "g">>,
    <<"i", "n", " ", "m", "g", "/", "k", "g">>,
    <<"M", "G", "/", "K", "G">>,
    <<"m", "g", "g", "supminus", "sup1">>,
    <<" ", "m", "L", " ">>,
    <<"x", "y", "z">>,
    <<"\\", "g", "r", "a", "m">>,
    <<"\\", "O", "N", "E">>,
    <<"\\", "m", "sup2">>,
    <<"\\", "k", "i", "l", "o", " ", "\\", "m", "e", "t", "r", "e">> }

ConvInit ==
  /\ cvVersion \in ConverterVersions
  /\ cvValue \in ConvValues
  /\ cvUnit \in ConvUnits
  /\ cvPhase = "input"
  /\ cvOut = EmptyDsi
  /\ cvOut2 = EmptyDsi

\* r = convertToDSI(v, u)
ConvertInput ==
  /\ cvPhase = "input"
  /\ cvOut' = Convert(cvVersion, cvValue, cvUnit)
  /\ cvPhase' = "converted"
  /\ UNCHANGED <<appVars, cdVars, mgVars, vlVars, cvVersion, cvValue, cvUnit, cvOut2>>

\* convertToDSI(r.dsiValue, r.dsiUnit)
ConvertResult ==
  /\ cvPhase = "converted"
  /\ cvOut2' = Convert(cvVersion, cvOut.dsiValue, cvOut.dsiUnit)
  /\ cvPhase' = "reconverted"
  /\ UNCHANGED <<appVars, cdVars, mgVars, vlVars, cvVersion, cvValue, cvUnit, cvOut>>

ConvNext == ConvertInput \/ ConvertResult


-----------------------------------------------------------------------------
(* The XML documents of the codec.  The generator writes fixed, well-formed *)
(* templates, so its output is held as the element tree of the templates;   *)
(* the strings of the document are written into it as escapeXml returns     *)
(* them, and the DOM parser decodes the character data of every text node.  *)
(* White space between the elements of a template is left out: the parser   *)
(* reads the text of leaf elements only.                                    *)

TextNode(s) == [tag |-> "#text", text |-> s]

Element(tag, attrs, kids) == [tag |-> tag, attrs |-> attrs, kids |-> kids]

El(tag, kids) == Element(tag, EmptyObject, kids)

\* <tag>text</tag>
Leaf(tag, s) == El(tag, IF Len(s) = 0 THEN <<>> ELSE <<TextNode(s)>>)

IsElement(node) == node.tag # "#text"

\* case '<': return '&lt;' ...
EscapeChar(c) ==
  CASE c = "<" -> <<"&", "l", "t", ";">>
    [] c = ">" -> <<"&", "g", "t", ";">>
    [] c = "&" -> <<"&", "a", "m", "p", ";">>
    [] c = "'" -> <<"&", "a", "p", "o", "s", ";">>
    [] c = "\"" -> <<"&", "q", "u", "o", "t", ";">>
    [] OTHER -> <<c>>

\* String(unsafe).replace(/[<>&'"]/g, ...)
escapeXml(unsafe) ==
  IF unsafe = NULL THEN EMPTY
  ELSE Flatten([i \in 1..Len(unsafe) |-> EscapeChar(unsafe[i])])

\* the entities of XML and the characters they stand for
Entities ==
  << [name |-> <<"&", "l", "t", ";">>, char |-> "<"],
     [name |-> <<"&", "g", "t", ";">>, char |-> ">"],
     [name |-> <<"&", "a", "m", "p", ";">>, char |-> "&"],
     [name |-> <<"&", "a", "p", "o", "s", ";">>, char |-> "'"],
     [name |-> <<"&", "q", "u", "o", "t", ";">>, char |-> "\""] >>

\* the entity that begins at s[i], 0 if none does
EntityAt(s, i) ==
  IF \E k \in 1..Len(Entities) :
       /\ i + Len(Entities[k].name) - 1 <= Len(s)
       /\ SubSeq(s, i, i + Len(Entities[k].name) - 1) = Entities[k].name
  THEN CHOOSE k \in 1..Len(Entities) :
         /\ i + Len(Entities[k].name) - 1 <= Len(s)
         /\ SubSeq(s, i, i + Len(Entities[k].name) - 1) = Entities[k].name
  ELSE 0

\* character data is well formed: no '<' and no '&' other than an entity
RECURSIVE WellFormedFrom(_, _)
WellFormedFrom(s, i) ==
  IF i > Len(s) THEN TRUE
  ELSE IF s[i] = "<" THEN FALSE
  ELSE IF s[i] = "&"
  THEN EntityAt(s, i) # 0 /\ WellFormedFrom(s, i + Len(Entities[EntityAt(s, i)].name))
  ELSE WellFormedFrom(s, i + 1)

\* the text the parser stores for character data: entities replaced, line
\* ends (CR LF, CR) normalised to LF
RECURSIVE DecodeFrom(_, _)
DecodeFrom(s, i) ==
  IF i > Len(s) THEN <<>>
  ELSE IF s[i] = "&" /\ EntityAt(s, i) # 0
  THEN <<Entities[EntityAt(s, i)].char>>
       \o DecodeFrom(s, i + Len(Entities[EntityAt(s, i)].name))
  ELSE IF s[i] = "\r"
  THEN <<"\n">> \o DecodeFrom(s, IF i < Len(s) /\ s[i + 1] = "\n" THEN i + 2 ELSE i + 1)
  ELSE <<s[i]>> \o DecodeFrom(s, i + 1)

RECURSIVE WellFormed(_)
WellFormed(node) ==
  IF IsElement(node)
  THEN \A i \in 1..Len(node.kids) : WellFormed(node.kids[i])
  ELSE WellFormedFrom(node.text, 1)

RECURSIVE DecodeNode(_)
DecodeNode(node) ==
  IF IsElement(node)
  THEN [node EXCEPT !.kids = [i \in 1..Len(node.kids) |-> DecodeNode(node.kids[i])]]
  ELSE TextNode(DecodeFrom(node.text, 1))

\* node.textContent
RECURSIVE textContent(_)
textContent(node) ==
  IF IsElement(node)
  THEN Flatten([i \in 1..Len(node.kids) |-> textContent(node.kids[i])])
  ELSE node.text

\* the element descendants of a node in document order
RECURSIVE Descendants(_)
Descendants(node) ==
  Flatten([i \in 1..Len(node.kids) |->
             IF IsElement(node.kids[i])
             THEN <<node.kids[i]>> \o Descendants(node.kids[i])
             ELSE <<>>])

\* parent.getElementsByTagName(tagName)
getElementsByTagName(parent, tagName) ==
  SelectSeq(Descendants(parent), LAMBDA node : node.tag = tagName)

\* parent.getElementsByTagName(tagName)[0]?.textContent || ""
getTagContent(parent, tagName) ==
  IF Len(getElementsByTagName(parent, tagName)) = 0 THEN EMPTY
  ELSE textContent(getElementsByTagName(parent, tagName)[1])

RECURSIVE getNestedContent(_, _)
getNestedContent(parent, path) ==
  IF Len(path) = 0 THEN textContent(parent)
  ELSE IF Len(getElementsByTagName(parent, Head(path))) = 0 THEN EMPTY
  ELSE getNestedContent(getElementsByTagName(parent, Head(path))[1], Tail(path))

\* the element children of a node
ChildElements(node) == SelectSeq(node.kids, IsElement)

-----------------------------------------------------------------------------
(* The encoder (utils/xmlGenerator.ts).                                     *)

Truthy(s) == ~Falsy(s)

\* `${n}` for a number n >= 0 and for a boolean
NumberText(n) == IntToChars(n)

BooleanText(b) == IF b THEN <<"t", "r", "u", "e">> ELSE <<"f", "a", "l", "s", "e">>

\* the ISO period of a Time After Dispatch validity
PeriodOf_Full(y, m) == <<"P">> \o NumberText(y) \o <<"Y">> \o NumberText(m) \o <<"M">>
PeriodOf(y, m) ==
  IF y = 0 /\ m = 0 THEN <<"P", "0", "Y">>
  ELSE <<"P">> \o (IF y # 0 THEN NumberText(y) \o <<"Y">> ELSE <<>>)
             \o (IF m # 0 THEN NumberText(m) \o <<"M">> ELSE <<>>)

\* the elements renderValidity writes into drmd:validity
renderValidity(data) ==
  IF data.validityType = <<"U", "n", "t", "i", "l", " ", "R", "e", "v", "o", "k", "e", "d">>
  THEN <<Leaf("drmd:untilRevoked", <<"t", "r", "u", "e">>)>>
  ELSE IF data.validityType = <<"S", "p", "e", "c", "i", "f", "i", "c", " ", "T", "i", "m", "e">>
  THEN <<Leaf("drmd:specificTime", escapeXml(data.specificTime))>>
  ELSE IF data.validityType = <<"T", "i", "m", "e", " ", "A", "f", "t", "e", "r", " ", "D", "i", "s", "p", "a", "t", "c", "h">>
  THEN <<El("drmd:timeAfterDispatch",
            <<Leaf("drmd:dispatchDate", escapeXml(data.dateOfIssue)),
              Leaf("drmd:period", PeriodOf(data.durationY, data.durationM))>>)>>
  ELSE <<>>

IsNumChar(c) == IsDigit(c) \/ c = "."

IsLineEnd(c) == c \in {"\n", "\r"}

\* the length of the longest run of [\d.] of s that starts at index i
NumRun(s, i) ==
  CHOOSE n \in 0..(Len(s) - i + 1) :
    /\ \A k \in i..(i + n - 1) : IsNumChar(s[k])
    /\ i + n > Len(s) \/ ~IsNumChar(s[i + n])

WsRun(s, i) ==
  CHOOSE n \in 0..(Len(s) - i + 1) :
    /\ \A k \in i..(i + n - 1) : IsWs(s[k])
    /\ i + n > Len(s) \/ ~IsWs(s[i + n])

\* [+-]? at index i
SignLen(s, i) == IF i <= Len(s) /\ s[i] \in {"+", "-"} THEN 1 ELSE 0

\* the most digits an exponent [eE][+-]?\d+ at index i can take, 0 if no
\* exponent begins there
ExpDigits(s, i) ==
  IF i <= Len(s) /\ s[i] \in {"e", "E"}
  THEN DigitRun(s, i + 1 + SignLen(s, i + 1))
  ELSE 0

\* the index after the number of n1 characters of [\d.] and an exponent of j
\* digits (none when j = 0)
NumberEnd(s, n1, j) ==
  IF j = 0 THEN n1 + 1 ELSE n1 + 2 + SignLen(s, n1 + 2) + j

\* \s*(\S.*)$ matches at index p
UnitMatches(s, p) ==
  /\ p + WsRun(s, p) <= Len(s)
  /\ \A k \in (p + WsRun(s, p))..Len(s) : ~IsLineEnd(s[k])

\* the ways /^([\d.]+(?:[eE][+-]?\d+)?)\s*(\S.*)$/ matches s
QuantityMatches(s) ==
  { c \in (1..NumRun(s, 1)) \X (0..Len(s)) :
      /\ c[2] <= ExpDigits(s, c[1] + 1)
      /\ UnitMatches(s, NumberEnd(s, c[1], c[2])) }

\* the match the regular expression returns: greedy in the number, then in
\* the exponent
QuantityMatch(s) ==
  CHOOSE c \in QuantityMatches(s) :
    \A d \in QuantityMatches(s) : d[1] < c[1] \/ (d[1] = c[1] /\ d[2] <= c[2])

\* match[1] and match[2]
NumPart(s, c) == SubSeq(s, 1, NumberEnd(s, c[1], c[2]) - 1)

UnitPart(s, c) ==
  SubSeq(s, NumberEnd(s, c[1], c[2]) + WsRun(s, NumberEnd(s, c[1], c[2])), Len(s))

NoQuantity(content) == El("drmd:noQuantity", <<Leaf("dcc:content", content)>>)

RenderConverted_Always(value, dsi) ==
  El("drmd:real", <<Leaf("si:value", escapeXml(dsi.dsiValue)),
                    Leaf("si:unit", escapeXml(dsi.dsiUnit))>>)
RenderConverted(value, dsi) ==
  IF Truthy(dsi.dsiUnit)
  THEN El("drmd:real", <<Leaf("si:value", escapeXml(dsi.dsiValue)),
                         Leaf("si:unit", escapeXml(dsi.dsiUnit))>>)
  ELSE NoQuantity(escapeXml(value))

RenderTrimmed(value, s) ==
  IF QuantityMatches(s) # {}
  THEN RenderConverted(value,
         convertToDSI(NumPart(s, QuantityMatch(s)), UnitPart(s, QuantityMatch(s))))
  ELSE NoQuantity(escapeXml(value))

\* the element renderPrimitiveQuantity writes for the text of a minimum
\* sample size or of the item quantities
renderPrimitiveQuantity(value) ==
  IF Falsy(value) \/ value = <<"n", "o", "Q", "u", "a", "n", "t", "i", "t", "y">>
  THEN NoQuantity(<<"n", "o", "Q", "u", "a", "n", "t", "i", "t", "y">>)
  ELSE RenderTrimmed(value, trim(value))

\* the rows of CAS_DATABASE
CAS_DATABASE ==
  << [key |-> <<"c", "a", "r", "b", "o", "n">>, cas |-> <<"7", "4", "4", "0", "-", "4", "4", "-", "0">>],
     [key |-> <<"c">>, cas |-> <<"7", "4", "4", "0", "-", "4", "4", "-", "0">>],
     [key |-> <<"i", "r", "o", "n">>, cas |-> <<"7", "4", "3", "9", "-", "8", "9", "-", "6">>],
     [key |-> <<"f", "e">>, cas |-> <<"7", "4", "3", "9", "-", "8", "9", "-", "6">>],
     [key |-> <<"l", "e", "a", "d">>, cas |-> <<"7", "4", "3", "9", "-", "9", "2", "-", "1">>],
     [key |-> <<"p", "b">>, cas |-> <<"7", "4", "3", "9", "-", "9", "2", "-", "1">>] >>

getCasNumber(nameOrSymbol) ==
  IF Falsy(nameOrSymbol) THEN NULL
  ELSE IF \E k \in 1..Len(CAS_DATABASE) :
            CAS_DATABASE[k].key = trim(toLowerCase(nameOrSymbol))
  THEN CAS_DATABASE[CHOOSE k \in 1..Len(CAS_DATABASE) :
                      CAS_DATABASE[k].key = trim(toLowerCase(nameOrSymbol))].cas
  ELSE NULL

ContentOf(tag, s) == El(tag, <<Leaf("dcc:content", escapeXml(s))>>)

ProducerXml(prod) ==
  El("drmd:referenceMaterialProducer",
     << ContentOf("drmd:name", Get(prod, "name")),
        El("drmd:contact",
           << ContentOf("dcc:name", Get(prod, "name")),
              Leaf("dcc:eMail", escapeXml(Get(prod, "email"))),
              Leaf("dcc:phone", escapeXml(Get(prod, "phone"))) >>
           \o (IF Truthy(Get(prod, "fax"))
               THEN <<Leaf("dcc:fax", escapeXml(prod.fax))>> ELSE <<>>)
           \o << El("dcc:location",
                    << Leaf("dcc:street", escapeXml(Get(prod.address, "street"))),
                       Leaf("dcc:streetNo", escapeXml(Get(prod.address, "streetNo"))),
                       Leaf("dcc:postCode", escapeXml(Get(prod.address, "postCode"))),
                       Leaf("dcc:city", escapeXml(Get(prod.address, "city"))),
                       Leaf("dcc:countryCode",
                            escapeXml(Get(prod.address, "countryCode"))) >>) >>) >>)

PersonXml(p) ==
  El("dcc:respPerson",
     << El("dcc:person", <<ContentOf("dcc:name", Get(p, "name"))>>) >>
     \o (IF Truthy(Get(p, "description"))
         THEN <<ContentOf("dcc:description", p.description)>> ELSE <<>>)
     \o << Leaf("dcc:role", escapeXml(Get(p, "role"))),
           Leaf("dcc:mainSigner", BooleanText(p.mainSigner)) >>)

AdministrativeXml(admin) ==
  El("drmd:administrativeData",
     << El("drmd:coreData",
           << Leaf("drmd:titleOfTheDocument", escapeXml(admin.title)),
              Leaf("drmd:uniqueIdentifier", escapeXml(admin.uniqueIdentifier)),
              El("drmd:validity", renderValidity(admin)) >>) >>
     \o Map(admin.producers, ProducerXml)
     \o (IF Len(admin.responsiblePersons) > 0
         THEN <<El("drmd:respPersons", Map(admin.responsiblePersons, PersonXml))>>
         ELSE <<>>))

MaterialXml(mat) ==
  El("drmd:material",
     << ContentOf("drmd:name", Get(mat, "name")),
        ContentOf("drmd:description", Get(mat, "description")),
        El("drmd:minimumSampleSize",
           <<El("dcc:itemQuantity",
                <<renderPrimitiveQuantity(Get(mat, "minimumSampleSize"))>>)>>) >>
     \o (IF Truthy(Get(mat, "itemQuantities"))
         THEN <<El("drmd:itemQuantities",
                   <<El("dcc:itemQuantity",
                        <<renderPrimitiveQuantity(mat.itemQuantities)>>)>>)>>
         ELSE <<>>))

UncertaintyXml(q) ==
  El("si:measurementUncertaintyUnivariate",
     <<El("si:expandedMU",
          <<Leaf("si:valueExpandedMU", escapeXml(q.uncertainty))>>
          \o (IF Truthy(Get(q, "coverageFactor"))
              THEN <<Leaf("si:coverageFactor", escapeXml(q.coverageFactor))>>
              ELSE <<>>)
          \o (IF Truthy(Get(q, "coverageProbability"))
              THEN <<Leaf("si:coverageProbability", escapeXml(q.coverageProbability))>>
              ELSE <<>>))>>)

CasLink(casNumber) ==
  <<"h", "t", "t", "p", "s", ":", "/", "/", "c", "o", "m", "m", "o", "n", "c", "h", "e", "m", "i", "s", "t", "r", "y", ".", "c", "a", "s", ".", "o", "r", "g", "/", "d", "e", "t", "a", "i", "l", "?", "c", "a", "s", "_", "r", "n", "=">> \o escapeXml(casNumber)

PropertyIdentifiersXml(casNumber) ==
  El("drmd:propertyIdentifiers",
     <<El("drmd:propertyIdentifier",
          << Leaf("drmd:scheme", <<"C", "A", "S">>),
             Leaf("drmd:value", escapeXml(casNumber)),
             Leaf("drmd:link", CasLink(casNumber)) >>)>>)

QuantityXml_Scaled(q) ==
  El("drmd:quantity",
     << ContentOf("dcc:name", Get(q, "name")),
        El("si:real",
           << Leaf("si:value", escapeXml(Get(q, "dsiValue"))),
              Leaf("si:unit", escapeXml(Or(Get(q, "dsiUnit"), Get(q, "unit")))) >>
           \o (IF Truthy(Get(q, "uncertainty")) THEN <<UncertaintyXml(q)>> ELSE <<>>)) >>
     \o (IF getCasNumber(Get(q, "name")) # NULL
         THEN <<PropertyIdentifiersXml(getCasNumber(Get(q, "name")))>>
         ELSE <<>>))

\* const val = q.value; const unit = q.dsiUnit || q.unit
QuantityXml(q) ==
  El("drmd:quantity",
     << ContentOf("dcc:name", Get(q, "name")),
        El("si:real",
           << Leaf("si:value", escapeXml(Get(q, "value"))),
              Leaf("si:unit", escapeXml(Or(Get(q, "dsiUnit"), Get(q, "unit")))) >>
           \o (IF Truthy(Get(q, "uncertainty")) THEN <<UncertaintyXml(q)>> ELSE <<>>)) >>
     \o (IF getCasNumber(Get(q, "name")) # NULL
         THEN <<PropertyIdentifiersXml(getCasNumber(Get(q, "name")))>>
         ELSE <<>>))

ResultXml(res) ==
  El("drmd:result",
     << ContentOf("drmd:name", Or(Get(res, "name"), <<"V", "a", "l", "u", "e", "s">>)) >>
     \o (IF Truthy(Get(res, "description"))
         THEN <<ContentOf("drmd:description", res.description)>> ELSE <<>>)
     \o << El("drmd:data", <<El("drmd:list", Map(res.quantities, QuantityXml))>>) >>)

ProceduresXml(procedures) ==
  El("drmd:procedures",
     <<El("dcc:usedMethod",
          << El("dcc:name", <<Leaf("dcc:content", <<"P", "r", "o", "c", "e", "d", "u", "r", "e">>)>>),
             ContentOf("dcc:description", procedures) >>)>>)

PropertyXml(prop) ==
  Element("drmd:materialProperties",
          [a \in {"isCertified"} |-> BooleanText(prop.isCertified)],
          << ContentOf("drmd:name", Get(prop, "name")) >>
          \o (IF Truthy(Get(prop, "description"))
              THEN <<ContentOf("drmd:description", prop.description)>> ELSE <<>>)
          \o (IF Truthy(Get(prop, "procedures"))
              THEN <<ProceduresXml(prop.procedures)>> ELSE <<>>)
          \o << El("drmd:results", Map(prop.results, ResultXml)) >>)

addStatement(tag, name, content) ==
  IF Falsy(content) THEN <<>>
  ELSE <<El(tag, << El("dcc:name", <<Leaf("dcc:content", escapeXml(name))>>),
                   Leaf("dcc:content", escapeXml(content)) >>)>>

StatementsXml(st) ==
  El("drmd:statements",
     addStatement("drmd:intendedUse", <<"I", "n", "t", "e", "n", "d", "e", "d", " ", "U", "s", "e">>, Get(st, "intendedUse"))
     \o addStatement("drmd:storageInformation", <<"S", "t", "o", "r", "a", "g", "e", " ", "I", "n", "f", "o", "r", "m", "a", "t", "i", "o", "n">>,
                     Get(st, "storageInformation"))
     \o addStatement("drmd:instructionsForHandlingAndUse", <<"H", "a", "n", "d", "l", "i", "n", "g", " ", "I", "n", "s", "t", "r", "u", "c", "t", "i", "o", "n", "s">>,
                     Get(st, "handlingInstructions"))
     \o addStatement("drmd:metrologicalTraceability", <<"M", "e", "t", "r", "o", "l", "o", "g", "i", "c", "a", "l", " ", "T", "r", "a", "c", "e", "a", "b", "i", "l", "i", "t", "y">>,
                     Get(st, "metrologicalTraceability"))
     \o addStatement("drmd:subcontractors", <<"S", "u", "b", "c", "o", "n", "t", "r", "a", "c", "t", "o", "r", "s">>, Get(st, "subcontractors"))
     \o addStatement("drmd:referenceToCertificationReport",
                     <<"R", "e", "f", "e", "r", "e", "n", "c", "e", " ", "t", "o", " ", "C", "e", "r", "t", "i", "f", "i", "c", "a", "t", "i", "o", "n", " ", "R", "e", "p", "o", "r", "t">>,
                     Get(st, "referenceToCertificationReport"))
     \o addStatement("drmd:healthAndSafetyInformation",
                     <<"H", "e", "a", "l", "t", "h", " ", "A", "n", "d", " ", "S", "a", "f", "e", "t", "y", " ", "I", "n", "f", "o", "r", "m", "a", "t", "i", "o", "n">>, Get(st, "healthAndSafety"))
     \o addStatement("drmd:legalNotice", <<"L", "e", "g", "a", "l", " ", "N", "o", "t", "i", "c", "e">>, Get(st, "legalNotice")))

\* the comment and the embedded document, which is written as it is
ExtraXml(data) ==
  (IF Truthy(Get(data, "generalComment"))
   THEN <<Leaf("drmd:comment", escapeXml(data.generalComment))>> ELSE <<>>)
  \o (IF Has(data, "binaryDocument") /\ Truthy(Get(data.binaryDocument, "data"))
      THEN <<Leaf("drmd:document", data.binaryDocument.data)>> ELSE <<>>)

generateDrmdXml(data) ==
  Element("drmd:digitalReferenceMaterialDocument",
          [a \in {"schemaVersion"} |-> <<"0", ".", "3", ".", "0">>],
          << AdministrativeXml(data.administrativeData),
             El("drmd:materials", Map(data.materials, MaterialXml)),
             El("drmd:materialPropertiesList", Map(data.properties, PropertyXml)),
             StatementsXml(data.statements.official) >>
          \o ExtraXml(data))

-----------------------------------------------------------------------------
(* The decoder (utils/xmlParser.ts).  uuid() returns Uuid(n) for the next   *)
(* unused n, which the operators below hand on.                             *)

\* parser.parseFromString(xmlString, "text/xml"): the document node over the
\* root element, character data decoded
DocumentOf(root) == Element("#document", EmptyObject, <<DecodeNode(root)>>)

\* first(list) for a list of elements that is not empty
First(elements) == elements[1]

\* the index of the leftmost match of (\d+)L in s, 0 if there is none
PeriodMatch(s, L) ==
  IF \E i \in 1..Len(s) : IsDigit(s[i]) /\ i + DigitRun(s, i) <= Len(s)
                          /\ s[i + DigitRun(s, i)] = L
  THEN CHOOSE i \in 1..Len(s) :
         /\ IsDigit(s[i]) /\ i + DigitRun(s, i) <= Len(s) /\ s[i + DigitRun(s, i)] = L
         /\ \A j \in 1..(i - 1) :
              ~(IsDigit(s[j]) /\ j + DigitRun(s, j) <= Len(s)
                /\ s[j + DigitRun(s, j)] = L)
  ELSE 0

\* y ? parseInt(y[1]) : 0
PeriodNumber(s, L) ==
  IF PeriodMatch(s, L) = 0 THEN 0
  ELSE DigitsValue(s, PeriodMatch(s, L), DigitRun(s, PeriodMatch(s, L)))

ParseTimeAfterDispatch(data, tad) ==
  Spread(data,
    [ validityType |-> <<"T", "i", "m", "e", " ", "A", "f", "t", "e", "r", " ", "D", "i", "s", "p", "a", "t", "c", "h">>,
      dateOfIssue |-> getNestedContent(tad, <<"drmd:dispatchDate">>),
      durationY |-> PeriodNumber(getNestedContent(tad, <<"drmd:period">>), "Y"),
      durationM |-> PeriodNumber(getNestedContent(tad, <<"drmd:period">>), "M") ])

ParseValidity(data, validity) ==
  IF Len(getElementsByTagName(validity, "drmd:untilRevoked")) > 0
  THEN With(data, "validityType", <<"U", "n", "t", "i", "l", " ", "R", "e", "v", "o", "k", "e", "d">>)
  ELSE IF Len(getElementsByTagName(validity, "drmd:specificTime")) > 0
  THEN Spread(data,
         [ validityType |-> <<"S", "p", "e", "c", "i", "f", "i", "c", " ", "T", "i", "m", "e">>,
           specificTime |-> getNestedContent(validity, <<"drmd:specificTime">>) ])
  ELSE IF Len(getElementsByTagName(validity, "drmd:timeAfterDispatch")) > 0
  THEN ParseTimeAfterDispatch(data,
         First(getElementsByTagName(validity, "drmd:timeAfterDispatch")))
  ELSE data

ParseCoreFields(data, core) ==
  Spread(data,
    [ title |-> getNestedContent(core, <<"drmd:titleOfTheDocument">>),
      uniqueIdentifier |-> getNestedContent(core, <<"drmd:uniqueIdentifier">>) ])

ParseCore(data, core) ==
  IF Len(getElementsByTagName(core, "drmd:validity")) > 0
  THEN ParseValidity(ParseCoreFields(data, core),
                     First(getElementsByTagName(core, "drmd:validity")))
  ELSE ParseCoreFields(data, core)

ParseLocation(address, loc) ==
  Spread(address,
    [ street |-> getNestedContent(loc, <<"dcc:street">>),
      streetNo |-> getNestedContent(loc, <<"dcc:streetNo">>),
      postCode |-> getNestedContent(loc, <<"dcc:postCode">>),
      city |-> getNestedContent(loc, <<"dcc:city">>),
      countryCode |-> getNestedContent(loc, <<"dcc:countryCode">>) ])

ParseContact(prod, contact) ==
  Spread(prod,
    [ email |-> getNestedContent(contact, <<"dcc:eMail">>),
      phone |-> getNestedContent(contact, <<"dcc:phone">>),
      fax |-> getNestedContent(contact, <<"dcc:fax">>),
      address |->
        IF Len(getElementsByTagName(contact, "dcc:location")) > 0
        THEN ParseLocation(prod.address,
                           First(getElementsByTagName(contact, "dcc:location")))
        ELSE prod.address ])

ParseProducerName(p, id) ==
  Spread(INITIAL_PRODUCER,
    [ uuid |-> id,
      name |-> getNestedContent(p, <<"drmd:name", "dcc:content">>) ])

ParseProducer(p, id) ==
  IF Len(getElementsByTagName(p, "drmd:contact")) > 0
  THEN ParseContact(ParseProducerName(p, id),
                    First(getElementsByTagName(p, "drmd:contact")))
  ELSE ParseProducerName(p, id)

ParsePerson(p, id) ==
  Spread(INITIAL_PERSON,
    [ uuid |-> id,
      name |-> getNestedContent(p, <<"dcc:person", "dcc:name", "dcc:content">>),
      description |-> getNestedContent(p, <<"dcc:description", "dcc:content">>),
      role |-> getTagContent(p, "dcc:role"),
      mainSigner |-> getTagContent(p, "dcc:mainSigner") = <<"t", "r", "u", "e">> ])

\* the elements get the identifiers n, n + 1, ...
ParseEach(elements, n, Parse(_, _)) ==
  [i \in 1..Len(elements) |-> Parse(elements[i], Uuid(n + i - 1))]

\* the administrative data of the element admin: the producers take the
\* identifiers from n on, the persons the ones after them
ParseAdministrative(data, admin, n) ==
  Spread(
    IF Len(getElementsByTagName(admin, "drmd:coreData")) > 0
    THEN ParseCore(data, First(getElementsByTagName(admin, "drmd:coreData")))
    ELSE data,
    [ producers |->
        IF Len(getElementsByTagName(admin, "drmd:referenceMaterialProducer")) > 0
        THEN ParseEach(getElementsByTagName(admin, "drmd:referenceMaterialProducer"),
                       n, ParseProducer)
        ELSE data.producers,
      responsiblePersons |->
        IF Len(getElementsByTagName(admin, "dcc:respPerson")) > 0
        THEN ParseEach(getElementsByTagName(admin, "dcc:respPerson"),
                       n + Len(getElementsByTagName(admin,
                                 "drmd:referenceMaterialProducer")),
                       ParsePerson)
        ELSE data.responsiblePersons ])

\* the identifiers the administrative data takes
AdministrativeSize(admin) ==
  Len(getElementsByTagName(admin, "drmd:referenceMaterialProducer"))
  + Len(getElementsByTagName(admin, "dcc:respPerson"))

\* `${val} ${unit}` of drmd:real, the content of drmd:noQuantity
ParseItemQuantity(itemQ) ==
  IF Len(getElementsByTagName(itemQ, "drmd:real")) > 0
  THEN getNestedContent(First(getElementsByTagName(itemQ, "drmd:real")), <<"si:value">>)
       \o <<" ">>
       \o getNestedContent(First(getElementsByTagName(itemQ, "drmd:real")), <<"si:unit">>)
  ELSE IF Len(getElementsByTagName(itemQ, "drmd:noQuantity")) > 0
  THEN getNestedContent(First(getElementsByTagName(itemQ, "drmd:noQuantity")),
                        <<"dcc:content">>)
  ELSE EMPTY

ParseContainer(container) ==
  IF Len(getElementsByTagName(container, "dcc:itemQuantity")) = 0 THEN EMPTY
  ELSE ParseItemQuantity(First(getElementsByTagName(container, "dcc:itemQuantity")))

parseQty(m, tagName) ==
  IF Len(getElementsByTagName(m, tagName)) = 0 THEN EMPTY
  ELSE ParseContainer(First(getElementsByTagName(m, tagName)))

ParseMaterial(m, id) ==
  [ uuid |-> id,
    name |-> getNestedContent(m, <<"drmd:name", "dcc:content">>),
    description |-> getNestedContent(m, <<"drmd:description", "dcc:content">>),
    materialClass |-> EMPTY,
    minimumSampleSize |-> parseQty(m, "drmd:minimumSampleSize"),
    itemQuantities |-> parseQty(m, "drmd:itemQuantities"),
    isCertified |-> FALSE,
    materialIdentifiers |-> <<INITIAL_ID>> ]

ParseExpandedMU(quant, expandedMU) ==
  Spread(quant,
    [ uncertainty |-> getNestedContent(expandedMU, <<"si:valueExpandedMU">>),
      coverageFactor |-> getNestedContent(expandedMU, <<"si:coverageFactor">>),
      coverageProbability |->
        getNestedContent(expandedMU, <<"si:coverageProbability">>) ])

ParseRealFields(quant, real) ==
  Spread(quant,
    [ value |-> getNestedContent(real, <<"si:value">>),
      unit |-> getNestedContent(real, <<"si:unit">>),
      dsiUnit |-> getNestedContent(real, <<"si:unit">>),
      dsiValue |-> getNestedContent(real, <<"si:value">>) ])

ParseReal(quant, real) ==
  IF Len(getElementsByTagName(real, "si:expandedMU")) > 0
  THEN ParseExpandedMU(ParseRealFields(quant, real),
                       First(getElementsByTagName(real, "si:expandedMU")))
  ELSE ParseRealFields(quant, real)

ParseQuantityName(q, id) ==
  Spread(INITIAL_QUANTITY,
    [ uuid |-> id,
      identifiers |-> <<>>,
      name |-> getNestedContent(q, <<"dcc:name", "dcc:content">>) ])

ParseQuantity(q, id) ==
  IF Len(getElementsByTagName(q, "si:real")) > 0
  THEN ParseReal(ParseQuantityName(q, id), First(getElementsByTagName(q, "si:real")))
  ELSE ParseQuantityName(q, id)

\* a result takes the identifier n, its quantities the ones after it
ParseResult(r, n) ==
  [ uuid |-> Uuid(n),
    name |-> getNestedContent(r, <<"drmd:name", "dcc:content">>),
    description |-> getNestedContent(r, <<"drmd:description", "dcc:content">>),
    quantities |-> ParseEach(getElementsByTagName(r, "drmd:quantity"), n + 1,
                             ParseQuantity) ]

ResultSize(r) == 1 + Len(getElementsByTagName(r, "drmd:quantity"))

RECURSIVE ParseResults(_, _)
ParseResults(rs, n) ==
  IF Len(rs) = 0 THEN <<>>
  ELSE <<ParseResult(Head(rs), n)>> \o ParseResults(Tail(rs), n + ResultSize(Head(rs)))

\* a property takes the identifier n, its results the ones after it
ParseProperty(p, n) ==
  [ uuid |-> Uuid(n),
    id |-> EMPTY,
    name |-> getNestedContent(p, <<"drmd:name", "dcc:content">>),
    description |-> getNestedContent(p, <<"drmd:description", "dcc:content">>),
    procedures |->
      getNestedContent(p, <<"drmd:procedures", "dcc:usedMethod", "dcc:description",
                            "dcc:content">>),
    isCertified |-> Get(p.attrs, "isCertified") = <<"t", "r", "u", "e">>,
    results |-> ParseResults(getElementsByTagName(p, "drmd:result"), n + 1) ]

PropertySize(p) ==
  1 + Len(getElementsByTagName(p, "drmd:result"))
    + Len(getElementsByTagName(p, "drmd:quantity"))

RECURSIVE ParseProperties(_, _)
ParseProperties(ps, n) ==
  IF Len(ps) = 0 THEN <<>>
  ELSE <<ParseProperty(Head(ps), n)>>
       \o ParseProperties(Tail(ps), n + PropertySize(Head(ps)))

\* the text of the dcc:content child of the element
DirectContent(el) ==
  IF \E i \in 1..Len(el.kids) : el.kids[i].tag = "dcc:content"
  THEN textContent(el.kids[CHOOSE i \in 1..Len(el.kids) :
                             /\ el.kids[i].tag = "dcc:content"
                             /\ \A j \in 1..(i - 1) : el.kids[j].tag # "dcc:content"])
  ELSE EMPTY

getSt(statements, tag) ==
  IF Len(getElementsByTagName(statements, tag)) = 0 THEN EMPTY
  ELSE DirectContent(First(getElementsByTagName(statements, tag)))

ParseStatements(official, statements) ==
  Spread(official,
    [ intendedUse |-> getSt(statements, "drmd:intendedUse"),
      storageInformation |-> getSt(statements, "drmd:storageInformation"),
      handlingInstructions |-> getSt(statements, "drmd:instructionsForHandlingAndUse"),
      metrologicalTraceability |-> getSt(statements, "drmd:metrologicalTraceability"),
      subcontractors |-> getSt(statements, "drmd:subcontractors"),
      referenceToCertificationReport |->
        getSt(statements, "drmd:referenceToCertificationReport"),
      healthAndSafety |-> getSt(statements, "drmd:healthAndSafetyInformation"),
      legalNotice |-> getSt(statements, "drmd:legalNotice") ])

\* the number of identifiers the administrative data of the document takes
AdministrativeCount(admins) ==
  IF Len(admins) > 0 THEN AdministrativeSize(First(admins)) ELSE 0

\* data.generalComment and data.binaryDocument
ParseExtra(data, doc) ==
  IF Truthy(getTagContent(doc, "drmd:document"))
  THEN Spread(data,
         [ generalComment |-> getTagContent(doc, "drmd:comment"),
           binaryDocument |->
             [ fileName |-> <<"i", "m", "p", "o", "r", "t", "e", "d", "_", "d", "o", "c", "u", "m", "e", "n", "t", ".", "p", "d", "f">>,
               mimeType |-> <<"a", "p", "p", "l", "i", "c", "a", "t", "i", "o", "n", "/", "p", "d", "f">>,
               data |-> trim(getTagContent(doc, "drmd:document")) ] ])
  ELSE With(data, "generalComment", getTagContent(doc, "drmd:comment"))

\* the document read from the elements of doc; data is the copy of
\* INITIAL_DRMD the decoder starts from
ParseElements(data, doc, admins, materials, props, statements, n) ==
  ParseExtra(
    [ administrativeData |->
        IF Len(admins) > 0
        THEN ParseAdministrative(data.administrativeData, First(admins), n)
        ELSE data.administrativeData,
      materials |->
        IF Len(materials) > 0
        THEN ParseEach(materials, n + AdministrativeCount(admins), ParseMaterial)
        ELSE data.materials,
      properties |->
        IF Len(props) > 0
        THEN ParseProperties(props, n + AdministrativeCount(admins) + Len(materials))
        ELSE data.properties,
      statements |->
        IF Len(statements) > 0
        THEN [data.statements EXCEPT
                !.official = ParseStatements(@, First(statements))]
        ELSE data.statements,
      comments |-> data.comments,
      documents |-> data.documents ],
    doc)

ParseDocument(doc, n) ==
  ParseElements(INITIAL_DRMD, doc,
                getElementsByTagName(doc, "drmd:administrativeData"),
                getElementsByTagName(doc, "drmd:material"),
                getElementsByTagName(doc, "drmd:materialProperties"),
                getElementsByTagName(doc, "drmd:statements"),
                n)

\* throw new Error("Invalid XML file structure")
InvalidXml == [error |-> <<"Invalid", "XML", "file", "structure">>]

\* parser.parseFromString(xmlString, "text/xml") for the XML of the root
\* element xml: markup the parser rejects gives a document that holds a
\* parsererror element
parseFromString(xml) ==
  IF WellFormed(xml) THEN DocumentOf(xml)
  ELSE Element("#document", EmptyObject, <<El("parsererror", <<>>)>>)

\* doc.querySelector("parsererror")
HasParserError(doc) == Len(getElementsByTagName(doc, "parsererror")) > 0

ParseChecked(doc, n) ==
  IF HasParserError(doc) THEN InvalidXml ELSE ParseDocument(doc, n)

\* parseDrmdXml; the thrown error is the result [error |-> message]
parseDrmdXml_Lenient(xml, n) == ParseDocument(DocumentOf(xml), n)
parseDrmdXml(xml, n) == ParseChecked(parseFromString(xml), n)

-----------------------------------------------------------------------------
(* The documents the codec is applied to: documents of the application,    *)
(* made of the entities extraction and editing produce.                    *)

CodecAdministrative ==
  { Spread(INITIAL_DRMD.administrativeData, v) :
      v \in { [uniqueIdentifier |-> Uuid(1)],
              [uniqueIdentifier |-> Uuid(1),
               validityType |-> <<"S", "p", "e", "c", "i", "f", "i", "c", " ", "T", "i", "m", "e">>,
               specificTime |-> <<"2", "0", "2", "4", "-", "0", "2", "-", "2", "9">>],
              [uniqueIdentifier |-> Uuid(1),
               validityType |-> <<"T", "i", "m", "e", " ", "A", "f", "t", "e", "r", " ", "D", "i", "s", "p", "a", "t", "c", "h">>,
               durationY |-> 1, durationM |-> 6],
              [uniqueIdentifier |-> Uuid(1),
               title |-> ALLOWED_TITLES[2],
               validityType |-> <<"T", "i", "m", "e", " ", "A", "f", "t", "e", "r", " ", "D", "i", "s", "p", "a", "t", "c", "h">>,
               durationY |-> 0, durationM |-> 0] } }

CodecProducers ==
  { << NewProducer([ name |-> <<"B", "A", "M">>,
                     email |-> <<"i", "n", "f", "o", "@", "b", "a", "m", ".", "d", "e">>,
                     address |-> [ street |-> <<"U", "n", "t", "e", "r", " ", "d", "e", "n", " ", "E", "i", "c", "h", "e", "n">>,
                                   streetNo |-> <<"8", "7">>,
                                   postCode |-> <<"D", "-", "1", "2", "2", "0", "5">>,
                                   city |-> <<"B", "e", "r", "l", "i", "n">> ] ], Uuid(2)) >>,
    << NewProducer([ name |-> <<"R", "&", "D", " ", "<", "L", "a", "b", ">", " ", "\"", "A", "\"">>,
                     phone |-> <<"+", "4", "9", " ", "3", "0", " ", "1">>,
                     fax |-> <<"+", "4", "9", " ", "3", "0", " ", "2">> ], Uuid(2)) >> }

CodecPersons ==
  { <<INITIAL_PERSON>>,
    << NewPerson([ name |-> <<"A", ".", " ", "S", "m", "i", "t", "h">>,
                   role |-> <<"H", "e", "a", "d", " ", "o", "f", " ", "D", "i", "v", "i", "s", "i", "o", "n">>,
                   description |-> <<"s", "i", "g", "n", "s", " ", "t", "h", "e", " ", "c", "e", "r", "t", "i", "f", "i", "c", "a", "t", "e">> ], Uuid(3)),
       [NewPerson([name |-> <<"B", ".", " ", "J", "o", "n", "e", "s">>], Uuid(4)) EXCEPT !.mainSigner = FALSE] >> }

CodecMaterials ==
  { <<>>,
    << NewMaterial([ name |-> <<"S", "t", "e", "e", "l">>,
                     description |-> <<"L", "o", "w", "-", "a", "l", "l", "o", "y", " ", "s", "t", "e", "e", "l">>,
                     minimumSampleSize |-> <<"4", ".", "9", " ", "g">> ], Uuid(5)) >>,
    << NewMaterial([ name |-> <<"O", "r", "e">>,
                     materialClass |-> <<"M", "i", "n", "e", "r", "a", "l">>,
                     itemQuantities |-> <<"1", "0", " ", "u", "n", "i", "t", "s">> ], Uuid(5)) >>,
    << NewMaterial([ name |-> <<"S", "o", "i", "l">>,
                     minimumSampleSize |-> <<"a", "p", "p", "r", "o", "x", " ", "5", " ", "g">>,
                     itemQuantities |-> <<"1", "0", "0", " ", "m", "L">> ], Uuid(5)) >> }

CodecProperties ==
  { <<>>,
    NewProperties(
      << [ name |-> <<"M", "a", "s", "s", " ", "f", "r", "a", "c", "t", "i", "o", "n">>,
           isCertified |-> TRUE,
           description |-> <<"C", "e", "r", "t", "i", "f", "i", "e", "d", " ", "b", "y", " ", "k", " ", "=", " ", "2">>,
           procedures |-> <<"I", "C", "P", "-", "M", "S">>,
           results |->
             << [ name |-> <<"C", "e", "r", "t", "i", "f", "i", "e", "d", " ", "v", "a", "l", "u", "e", "s">>,
                  description |-> <<"T", "a", "b", "l", "e", " ", "1">>,
                  quantities |->
                    << [ name |-> <<"P", "b">>, value |-> <<"4", ".", "9">>,
                         unit |-> <<"m", "g", "/", "k", "g">>, uncertainty |-> <<"0", ".", "1">> ] >> ] >> ] >>,
      6),
    NewProperties(
      << [ name |-> <<"D", "e", "n", "s", "i", "t", "y">>,
           isCertified |-> FALSE,
           results |->
             << [ name |-> <<"I", "n", "f", "o", "r", "m", "a", "t", "i", "v", "e", " ", "v", "a", "l", "u", "e", "s">>,
                  description |-> <<"n", "o", "t", " ", "c", "e", "r", "t", "i", "f", "i", "e", "d">>,
                  quantities |->
                    << [ name |-> <<"M", "a", "s", "s">>, value |-> <<"4", ".", "9">>, unit |-> <<"g">>,
                         coverageFactor |-> <<"3">> ],
                       [ name |-> <<"V", "o", "l", "u", "m", "e">>, value |-> <<"<", "2">>,
                         unit |-> <<"f", "u", "r", "l", "o", "n", "g">>, uncertainty |-> <<"0", ".", "5">> ] >> ] >> ] >>,
      6),
    NewProperties(
      << [ name |-> <<"P", "u", "r", "i", "t", "y">>,
           isCertified |-> TRUE,
           results |->
             << [ name |-> <<"A">>,
                  quantities |-> << [ name |-> <<"C">>, value |-> <<"9", "9", ".", "9">>,
                                      unit |-> <<"%">>,
                                      uncertainty |-> <<"0", ".", "0", "5">> ] >> ] >> ] >>,
      6) }

CodecStatements ==
  { INITIAL_DRMD.statements,
    [INITIAL_DRMD.statements EXCEPT
       !.official = Spread(@, [ intendedUse |-> <<"C", "a", "l", "i", "b", "r", "a", "t", "i", "o", "n", " ", "&", " ", "c", "o", "n", "t", "r", "o", "l">>,
                                storageInformation |-> <<"K", "e", "e", "p", " ", "d", "r", "y">>,
                                handlingInstructions |-> <<"S", "h", "a", "k", "e">>,
                                legalNotice |-> <<"N", "o", "n", "e">> ])] }

CodecDocument(a, p, r, m, q, s) ==
  [ administrativeData |->
      Spread(a, [producers |-> p, responsiblePersons |-> r]),
    materials |-> m,
    properties |-> q,
    statements |-> s,
    comments |-> <<>>,
    documents |-> <<>> ]

\* texts of a minimum sample size or of the item quantities
PrimitiveTexts ==
  { EMPTY, <<"n", "o", "Q", "u", "a", "n", "t", "i", "t", "y">>, <<"1", "e", "5">>, <<"5", "e", "3", " ", "g">>, <<".", " ", "g">>, <<" ", "2", " ", "k", "g", " ">>,
    <<"4", ".", "9">>, <<"<", "5", " ", "g">>, <<"5", " ", "g", "\n", "n", "e", "t">>, <<"1", ".", "5", "E", "-", "3", " ", "m", "L">>, <<"1", "2", " ", "'", "u", "n", "i", "t", "s", "'">>,
    <<"3", "m", "g", " ", "/", " ", "k", "g">> }

\* a material with one of the texts in both fields
PrimitiveMaterials ==
  { << [ NewMaterial([ name |-> <<"S", "a", "m", "p", "l", "e">> ], Uuid(5))
           EXCEPT !.minimumSampleSize = t, !.itemQuantities = t ] >> :
      t \in PrimitiveTexts }

\* the minimal document of the codec
PlainDocument ==
  CodecDocument(Spread(INITIAL_DRMD.administrativeData, [uniqueIdentifier |-> Uuid(1)]),
                <<NewProducer([name |-> <<"B", "A", "M">>], Uuid(2))>>,
                <<INITIAL_PERSON>>, <<>>, <<>>, INITIAL_DRMD.statements)

\* documents as the decoder returns them for a file with a comment or an
\* embedded document
ImportedDocuments ==
  { Spread(PlainDocument, x) :
      x \in { [ generalComment |-> <<"i", "t", "'", "s", " ", "<", "b", ">", "b", "o", "l", "d", "<", "/", "b", ">", " ", "&", " ", "\"", "n", "e", "w", "\"">> ],
              [ generalComment |-> EMPTY,
                binaryDocument |-> [ fileName |-> <<"i", "m", "p", "o", "r", "t", "e", "d", "_", "d", "o", "c", "u", "m", "e", "n", "t", ".", "p", "d", "f">>,
                                     mimeType |-> <<"a", "p", "p", "l", "i", "c", "a", "t", "i", "o", "n", "/", "p", "d", "f">>,
                                     data |-> <<"J", "V", "B", "E", "R", "i", "0", "x", "L", "j", "Q", "=">> ] ],
              [ generalComment |-> EMPTY,
                binaryDocument |-> [ fileName |-> <<"i", "m", "p", "o", "r", "t", "e", "d", "_", "d", "o", "c", "u", "m", "e", "n", "t", ".", "p", "d", "f">>,
                                     mimeType |-> <<"a", "p", "p", "l", "i", "c", "a", "t", "i", "o", "n", "/", "p", "d", "f">>,
                                     data |-> <<"<", "/", "d", "r", "m", "d", ":", "d", "o", "c", "u", "m", "e", "n", "t", ">", "<", "x", ">">> ] ] } }

\* the years and months of the durations of a Time After Dispatch validity
DurationYears == {0, 1, 2, 10}

DurationMonths == {0, 6, 11, 18}

ValidityDocuments ==
  { [PlainDocument EXCEPT
       !.administrativeData =
          Spread(@, [ validityType |-> <<"T", "i", "m", "e", " ", "A", "f", "t", "e", "r", " ", "D", "i", "s", "p", "a", "t", "c", "h">>,
                      durationY |-> y, durationM |-> m ])] :
      y \in DurationYears, m \in DurationMonths }

CodecDocuments ==
  { CodecDocument(a, p, r, m, q, s) :
      a \in CodecAdministrative, p \in CodecProducers, r \in CodecPersons,
      m \in CodecMaterials, q \in CodecProperties, s \in CodecStatements }
  \cup { [PlainDocument EXCEPT !.materials = m] : m \in PrimitiveMaterials }
  \cup ValidityDocuments
  \cup ImportedDocuments

\* the first identifier a document above has not used: its properties take
\* the ones from 6 on
FreshUuid(d) == 6 + PropertiesCost(d.properties)

CodecIdle ==
  /\ cdDoc = EmptyObject
  /\ cdXml = EmptyObject
  /\ cdOut = EmptyObject
  /\ cdPhase = "idle"

CodecInit ==
  /\ cdDoc \in CodecDocuments
  /\ cdXml = EmptyObject
  /\ cdOut = EmptyObject
  /\ cdPhase = "document"

\* xml = generateDrmdXml(d)
Encode ==
  /\ cdPhase = "document"
  /\ cdXml' = generateDrmdXml(cdDoc)
  /\ cdPhase' = "encoded"
  /\ UNCHANGED <<cvVars, appVars, mgVars, vlVars, cdDoc, cdOut>>

\* the file without its elements of the given tag
RECURSIVE Without(_, _)
Without(node, tag) ==
  IF IsElement(node)
  THEN [node EXCEPT !.kids =
          Flatten([i \in 1..Len(node.kids) |->
                     IF node.kids[i].tag = tag THEN <<>>
                     ELSE <<Without(node.kids[i], tag)>>])]
  ELSE node

\* the file with one more child of the root element
WithChild(root, child) == [root EXCEPT !.kids = Append(@, child)]

\* the elements a file may lack
OptionalTags ==
  { "drmd:administrativeData", "drmd:coreData", "drmd:titleOfTheDocument",
    "drmd:uniqueIdentifier", "drmd:validity", "drmd:dispatchDate", "drmd:period",
    "drmd:referenceMaterialProducer", "drmd:contact", "dcc:location",
    "dcc:respPerson", "dcc:mainSigner", "drmd:material", "dcc:itemQuantity",
    "drmd:materialProperties", "drmd:result", "si:real", "si:coverageFactor",
    "drmd:statements", "dcc:content" }

\* character data a file may hold that is not XML
RawTexts == { <<"a", " ", "<", " ", "b">>, <<"R", "&", "D">>, <<"&", "n", "b", "s", "p", ";">> }

\* files that were not written by the encoder: a generated file that lacks
\* its elements of one tag, that has unescaped text in a comment, or that
\* holds an element of another vocabulary
ReceivedFiles(xml) ==
  { Without(xml, tag) : tag \in OptionalTags }
  \cup { WithChild(xml, Leaf("drmd:comment", s)) : s \in RawTexts }
  \cup { WithChild(xml, El("parsererror", <<>>)),
         WithChild(xml, Leaf("drmd:comment", <<"1", " ", "&", "l", "t", ";", " ", "2">>)) }

\* the documents whose files are changed before they are read
IsReceivedDocument(d) ==
  /\ d.administrativeData.validityType = <<"T", "i", "m", "e", " ", "A", "f", "t", "e", "r", " ", "D", "i", "s", "p", "a", "t", "c", "h">>
  /\ d.administrativeData.durationY = 1
  /\ Len(d.administrativeData.responsiblePersons) = 2
  /\ d.administrativeData.producers[1].name = <<"B", "A", "M">>
  /\ Len(d.materials) = 1
  /\ d.materials[1].name = <<"S", "o", "i", "l">>
  /\ d.statements # INITIAL_DRMD.statements

\* the user picks a file that is not the one the encoder wrote
Receive ==
  /\ cdPhase = "encoded"
  /\ IsReceivedDocument(cdDoc)
  /\ cdXml' \in ReceivedFiles(cdXml)
  /\ cdPhase' = "received"
  /\ UNCHANGED <<cvVars, appVars, mgVars, vlVars, cdDoc, cdOut>>

\* out = parseDrmdXml(xml)
Decode ==
  /\ cdPhase \in {"encoded", "received"}
  /\ cdOut' = parseDrmdXml(cdXml, FreshUuid(cdDoc))
  /\ cdPhase' = IF cdPhase = "encoded" THEN "decoded" ELSE "imported"
  /\ UNCHANGED <<cvVars, appVars, mgVars, vlVars, cdDoc, cdXml>>

CodecNext == Encode \/ Receive \/ Decode

-----------------------------------------------------------------------------
(* The validity of an extraction: what handleFileUpload makes of the       *)
(* administrativeData of a payload and what the encoder writes for it.     *)

MaxYears == 3

MaxMonths == 24

\* the payloads with a Time After Dispatch validity
DurationPayloads ==
  { [ validityType |-> <<"T", "i", "m", "e", " ", "A", "f", "t", "e", "r", " ", "D", "i", "s", "p", "a", "t", "c", "h">>, durationY |-> y, durationM |-> m ] :
      y \in 0..MaxYears, m \in 0..MaxMonths }

MonthNumbers == 0..13

\* a month as the certificate prints it, with and without a leading zero
MonthTexts ==
  { IntToChars(m) : m \in MonthNumbers } \cup { padStart2(IntToChars(m)) : m \in MonthNumbers }

YearNumbers == {1900, 2000, 2023, 2024, 2025}

MonthYearTokens ==
  { mt \o <<"/">> \o IntToChars(y) : mt \in MonthTexts, y \in YearNumbers }

OtherTokens == { <<"2", "0", "2", "4", "-", "0", "2", "-", "2", "9">>, <<" ", "0", "2", "/", "2", "0", "2", "4", " ">>, <<"0", "2", "/", "2", "4">>, <<"F", "e", "b", " ", "2", "0", "2", "4">> }

\* the payloads with a Specific Time validity
SpecificTimePayloads ==
  { [ validityType |-> <<"S", "p", "e", "c", "i", "f", "i", "c", " ", "T", "i", "m", "e">>, specificTime |-> t ] :
      t \in MonthYearTokens \cup OtherTokens }

ValidityPayloads == DurationPayloads \cup SpecificTimePayloads

ValidityIdle ==
  /\ vlAdmin = NULL
  /\ vlOut = NULL
  /\ vlXml = <<>>
  /\ vlPhase = "idle"

ValidityInit ==
  /\ vlAdmin \in ValidityPayloads
  /\ vlOut = NULL
  /\ vlXml = <<>>
  /\ vlPhase = "payload"

\* the administrativeData of the document after the upload of a certificate
\* whose extraction has this administrativeData
NormalizeValidity ==
  /\ vlPhase = "payload"
  /\ vlOut' = ApplyExtraction(INITIAL_DRMD,
                              NormalizeExtracted([administrativeData |-> vlAdmin]),
                              1).administrativeData
  /\ vlPhase' = "normalized"
  /\ UNCHANGED <<cvVars, appVars, cdVars, mgVars, vlAdmin, vlXml>>

\* the validity the encoder writes for that document
EncodeValidity ==
  /\ vlPhase = "normalized"
  /\ vlXml' = renderValidity(vlOut)
  /\ vlPhase' = "encoded"
  /\ UNCHANGED <<cvVars, appVars, cdVars, mgVars, vlAdmin, vlOut>>

ValidityNext == NormalizeValidity \/ EncodeValidity

-----------------------------------------------------------------------------
(* The specifications: Spec of the application, SpecConv of the unit       *)
(* converter, SpecCodec of the XML encoder and decoder, SpecMerge of the   *)
(* merge of extracted properties, SpecValidity of the validity of an       *)
(* extraction.  Under each the variables of the others rest in their       *)
(* initial values.                                                         *)

ConvIdle ==
  /\ cvVersion = "utils/unitConverter.ts"
  /\ cvValue = NULL
  /\ cvUnit = NULL
  /\ cvPhase = "idle"
  /\ cvOut = EmptyDsi
  /\ cvOut2 = EmptyDsi

InitConv == ConvInit /\ AppInit /\ CodecIdle /\ MergeIdle /\ ValidityIdle

SpecConv == InitConv /\ [][ConvNext]_vars

InitCodec == CodecInit /\ AppInit /\ ConvIdle /\ MergeIdle /\ ValidityIdle

SpecCodec == InitCodec /\ [][CodecNext]_vars

Init == AppInit /\ ConvIdle /\ CodecIdle /\ MergeIdle /\ ValidityIdle

Next == AppNext

Spec == Init /\ [][Next]_vars

InitMerge == MergeInit /\ AppInit /\ ConvIdle /\ CodecIdle /\ ValidityIdle

SpecMerge == InitMerge /\ [][MergeNext]_vars


InitValidity == ValidityInit /\ AppInit /\ ConvIdle /\ CodecIdle /\ MergeIdle

SpecValidity == InitValidity /\ [][ValidityNext]_vars

SpecUploads == Init /\ [][UploadsNext]_vars

\* FileReader fires onloadend for every read, and the promise of the
\* extraction request settles: a file in flight is eventually done with
Settles == ReaderFails \/ ExtractionRejects \/ ExtractionResolves

FairUploads == SpecUploads /\ WF_vars(Settles)
-----------------------------------------------------------------------------
(* Claims about the unit converter, checked under SpecConv.                *)

UnitMapOf(version) ==
  IF version = "part_002" THEN UNIT_MAP_part002 ELSE UNIT_MAP

\* the table entry the unit argument resolves to, 0 when there is none
cvResolved == ResolveUnit(UnitMapOf(cvVersion), cvUnit)

cvEntry == UnitMapOf(cvVersion)[cvResolved.idx]

cvCalled == cvPhase \in {"converted", "reconverted"}

\* C3: conversion is idempotent: whenever r = convertToDSI(v, u) has a
\* non-empty dsiUnit, convertToDSI(r.dsiValue, r.dsiUnit) = r; and a unit
\* that begins with the backslash escape marker is passed through with
\* factor 1 (the unit returned as dsiUnit, the trimmed value as dsiValue).
C3_ConversionIdempotent ==
  /\ (cvPhase = "reconverted" /\ cvOut.dsiUnit # EMPTY) => cvOut2 = cvOut
  /\ (cvCalled /\ cvUnit # NULL /\ cvValue # NULL /\ startsWith(cvUnit, <<"\\">>)
        /\ RemoveWhitespace(NormalizeSuperscripts(cvUnit)) = cvUnit
        /\ toLowerCase(cvUnit) = cvUnit)
     => cvOut = Dsi(trim(cvValue), cvUnit)

\* C4: the dsiUnit depends on the unit alone: the result is the empty pair
\* exactly when the unit is null or resolves to no table entry and is not
\* escape-prefixed; a unit that resolves yields its dsiUnit whatever the
\* value (null, empty, non-numeric), and for such a value with a factor
\* other than 1 the dsiValue is empty.
C4_UnitIndependentOfValue ==
  cvCalled =>
    /\ (cvOut = EmptyDsi) <=>
         \/ cvUnit = NULL
         \/ /\ cvResolved.idx = 0
            /\ ~startsWith(cvResolved.cleanUnit, <<"\\">>)
    /\ (cvUnit # NULL /\ cvResolved.idx # 0) =>
         /\ cvOut.dsiUnit = cvEntry.dsiUnit
         /\ ( /\ ~FactorIsOne(cvEntry)
              /\ isNaN(parseFloat(numStr(IF cvValue = NULL THEN EMPTY ELSE cvValue))) )
            => cvOut.dsiValue = EMPTY

\* C5: for a unit that resolves with factor 1 the dsiValue is the original
\* value string trimmed, not its digits alone: ("<0.05", "mg/kg") gives
\* dsiValue "<0.05".
C5_FactorOnePreservesValue ==
  ( /\ cvCalled
    /\ cvUnit # NULL
    /\ cvValue # NULL
    /\ cvResolved.idx # 0
    /\ FactorIsOne(cvEntry) )
  => cvOut.dsiValue = trim(cvValue)

\* C6: a unit whose D-SI symbol encodes its own prefix keeps factor 1:
\* ("4.9", "g") gives dsiValue "4.9" with the gram symbol, (v, "%") gives
\* dsiValue v with \percent; only a unit converted to another unit (lb to
\* kilogram) scales the value.
C6_OwnSymbolKeepsValue ==
  cvCalled =>
    /\ (cvValue = <<"4", ".", "9">> /\ cvUnit = <<"g">>)
         => cvOut = Dsi(<<"4", ".", "9">>, <<"\\", "g", "r", "a", "m">>)
    /\ (cvValue # NULL /\ cvUnit = <<"%">>)
         => cvOut = Dsi(trim(cvValue), <<"\\", "p", "e", "r", "c", "e", "n", "t">>)
    /\ (cvValue = <<"2">> /\ cvUnit = <<"l", "b">>)
         => cvOut = Dsi(<<"0", ".", "9", "0", "7", "1", "8", "5">>,
                        <<"\\", "k", "i", "l", "o", "g", "r", "a", "m">>)

-----------------------------------------------------------------------------
(* Claims about the application, checked under Spec.                       *)

Range(seq) == {seq[i] : i \in 1..Len(seq)}

\* C1: an XML export happens only for a document whose validation report has
\* no error, whichever control starts it, and the download of the Validate &
\* Export tab is available whenever the report has no error, whatever the
\* warnings.
C1_ExportOnlyWithoutErrors ==
  /\ exported.control # "none" => exported.errors = 0
  /\ (mounted /\ Len(getValidationReport(drmdData).errors) = 0)
       => ENABLED DownloadFromValidateTab

\* the extracted data the resolution of file f applies
ExtractedOf(f) == NormalizeExtracted(extractStructuredDataFromPdf(Responses[f]))

\* the names of the entries of a list
Names(list) == [i \in 1..Len(list) |-> Or(Get(list[i], "name"), EMPTY)]

\* newList is the extracted list when that one is not empty, and the list of
\* the previous document otherwise
ReplacedIfNonEmpty(extractedList, prevList, newList) ==
  IF Len(extractedList) = 0 THEN newList = prevList
  ELSE Names(newList) = Names(extractedList)

ListsFollow(extractedData) ==
  /\ ReplacedIfNonEmpty(
       GetList(GetObject(extractedData, "administrativeData"), "producers"),
       drmdData.administrativeData.producers,
       drmdData'.administrativeData.producers)
  /\ ReplacedIfNonEmpty(
       GetList(GetObject(extractedData, "administrativeData"), "responsiblePersons"),
       drmdData.administrativeData.responsiblePersons,
       drmdData'.administrativeData.responsiblePersons)
  /\ ReplacedIfNonEmpty(GetList(extractedData, "materials"),
                        drmdData.materials, drmdData'.materials)

\* C7: applying an extraction result replaces the producers, the responsible
\* persons and the materials of the document by the extracted list only when
\* that list is not empty; an empty or absent extracted list leaves the list
\* of the previous document unchanged.
C7_ListsReplacedOnlyWhenNonEmpty ==
  [][ExtractionResolves => \A f \in pending \ pending' : ListsFollow(ExtractedOf(f))]_vars

\* the number n of the identifier Uuid(n), 0 for any other string
UuidNumber(id) ==
  IF \E n \in 1..nextUuid : id = Uuid(n)
  THEN CHOOSE n \in 1..nextUuid : id = Uuid(n)
  ELSE 0

\* an extraction with a producer and without responsible persons was applied
\* to a document with two persons: the second person was added before the
\* extraction materialised its producer (its identifier is older), the
\* producer of the extraction replaced the one of the document and both
\* persons stayed
C7_Witness ==
  /\ uploads = 1
  /\ pending = {}
  /\ Names(drmdData.administrativeData.producers) = << <<"N", "I", "S", "T">> >>
  /\ Len(drmdData.administrativeData.responsiblePersons) = 2
  /\ UuidNumber(drmdData.administrativeData.responsiblePersons[2].uuid) > 0
  /\ UuidNumber(drmdData.administrativeData.responsiblePersons[2].uuid)
       < UuidNumber(drmdData.administrativeData.producers[1].uuid)

\* the identifiers of the entities of a document
QuantityUuids(r) == Names([i \in 1..Len(r.quantities) |-> [name |-> r.quantities[i].uuid]])

ResultUuids(p) ==
  Flatten([i \in 1..Len(p.results) |->
             <<p.results[i].uuid>> \o QuantityUuids(p.results[i])])

Uuids(list) == [i \in 1..Len(list) |-> list[i].uuid]

EntityUuids(d) ==
  Uuids(d.administrativeData.producers)
  \o Uuids(d.administrativeData.responsiblePersons)
  \o Uuids(d.materials)
  \o Uuids(d.properties)
  \o Flatten([i \in 1..Len(d.properties) |-> ResultUuids(d.properties[i])])
  \o Uuids(d.statements.custom)

\* the identifiers the extraction input supplies
InputUuids == { <<"i", "n", "-", "1">>, <<"i", "n", "-", "2">>, <<"i", "n", "-", "3">>, <<"i", "n", "-", "4">> }

Distinct(seq) == \A i, j \in 1..Len(seq) : i # j => seq[i] # seq[j]

\* C8: in every document state every producer, responsible person, material,
\* property, result, quantity and custom statement has an identifier that is
\* not empty and differs from the identifier of every other entity, and no
\* entity carries an identifier of the extraction input.
C8_EntitiesHaveFreshUuids ==
  /\ \A i \in 1..Len(EntityUuids(drmdData)) : EntityUuids(drmdData)[i] # EMPTY
  /\ Distinct(EntityUuids(drmdData))
  /\ \A i \in 1..Len(EntityUuids(drmdData)) :
       EntityUuids(drmdData)[i] \notin InputUuids

\* the message holds the word
HasWord(message, word) == \E i \in 1..Len(message) : message[i] = word

ProducerNameRequired(i) ==
  Issue("Administrative", <<"Producer", NumWord(i), ":", "Name", "is", "required.">>)

\* every rule the document violates has its entry in the errors, and a
\* document without responsible persons has a warning and no error for it
EveryRuleReported(d, errors, warnings) ==
  /\ Falsy(d.administrativeData.title)
       => \E e \in Range(errors) : HasWord(e.message, "Title")
  /\ Falsy(d.administrativeData.uniqueIdentifier)
       => \E e \in Range(errors) : HasWord(e.message, "Identifier")
  /\ Len(d.administrativeData.producers) # 1
       => \E e \in Range(errors) :
            /\ HasWord(e.message, "Producer")
            /\ ~HasWord(e.message, "Name")
  /\ \A i \in 1..Len(d.administrativeData.producers) :
       Falsy(Get(d.administrativeData.producers[i], "name"))
         => ProducerNameRequired(i) \in Range(errors)
  /\ Len(d.materials) = 0
       => \E e \in Range(errors) : e.section = "Materials"
  /\ \A i \in 1..Len(d.materials) :
       /\ Falsy(Get(d.materials[i], "name"))
            => \E e \in Range(errors) :
                 /\ e.section = "Materials"
                 /\ HasWord(e.message, NumWord(i))
                 /\ HasWord(e.message, "Name")
       /\ Falsy(Get(d.materials[i], "minimumSampleSize"))
            => \E e \in Range(errors) :
                 /\ e.section = "Materials"
                 /\ HasWord(e.message, NumWord(i))
                 /\ HasWord(e.message, "Minimum")
  /\ Falsy(d.statements.official.intendedUse)
       => \E e \in Range(errors) : HasWord(e.message, "Intended")
  /\ Falsy(d.statements.official.storageInformation)
       => \E e \in Range(errors) : HasWord(e.message, "Storage")
  /\ Falsy(d.statements.official.handlingInstructions)
       => \E e \in Range(errors) : HasWord(e.message, "Handling")
  /\ Len(d.administrativeData.responsiblePersons) = 0
       => /\ \E w \in Range(warnings) : HasWord(w.message, "Persons")
          /\ \A e \in Range(errors) : ~HasWord(e.message, "Persons")

\* C9: the validator evaluates every rule whatever failed before: the errors
\* hold an entry for each rule the document violates, in particular one error
\* for each producer without a name, also when the document has more than one
\* producer; a document without responsible persons gets a warning and no
\* error for it.
C9_EveryRuleReported ==
  EveryRuleReported(drmdData, getValidationReport(drmdData).errors,
                    getValidationReport(drmdData).warnings)

\* the only rule the document violates is the one of the empty materials
OnlyMaterialsMissing(d) ==
  /\ Len(d.materials) = 0
  /\ ~Falsy(d.administrativeData.title)
  /\ ~Falsy(d.administrativeData.uniqueIdentifier)
  /\ Len(d.administrativeData.producers) = 1
  /\ ~Falsy(Get(d.administrativeData.producers[1], "name"))
  /\ ~Falsy(d.statements.official.intendedUse)
  /\ ~Falsy(d.statements.official.storageInformation)
  /\ ~Falsy(d.statements.official.handlingInstructions)

\* d after Add Material and the edits of the name and of the minimum sample
\* size of the new material
WithNamedMaterial(d, name, size) ==
  [d EXCEPT !.materials =
     Append(@, With(With(NewBlankMaterial(Uuid(nextUuid)), "name", name),
                    "minimumSampleSize", size))]

NoMaterialsError(errors) == \A e \in Range(errors) : e.section # "Materials"

MaterialClearsError(d) ==
  \A name \in EditNames \ {EMPTY}, size \in EditSizes \ {EMPTY} :
    NoMaterialsError(getValidationReport(WithNamedMaterial(d, name, size)).errors)

\* C10: a document whose only violated rule is the empty list of materials
\* has exactly one error, of section "Materials" and with the word "required"
\* in its message, and is not eligible for export; with one material with a
\* name and a minimum sample size added, the report has no error of section
\* "Materials".
C10_OneRequiredError ==
  OnlyMaterialsMissing(drmdData) =>
    /\ Len(getValidationReport(drmdData).errors) = 1
    /\ getValidationReport(drmdData).errors[1].section = "Materials"
    /\ \/ HasWord(getValidationReport(drmdData).errors[1].message, "required")
       \/ HasWord(getValidationReport(drmdData).errors[1].message, "required.")
    /\ ~isValid(drmdData)
    /\ MaterialClearsError(drmdData)

\* C10 as amended: a document whose only violated rule is the empty list of
\* materials has exactly one error, of section "Materials" and with the
\* message "At least one Material must be defined.", and is not eligible for
\* export; with one material with a name and a minimum sample size added,
\* the report has no error of section "Materials".
C10_OneMaterialsError ==
  OnlyMaterialsMissing(drmdData) =>
    /\ getValidationReport(drmdData).errors =
         <<Issue("Materials",
                 <<"At", "least", "one", "Material", "must", "be", "defined.">>)>>
    /\ ~isValid(drmdData)
    /\ MaterialClearsError(drmdData)

\* an extraction without materials filled the title, the producer and the
\* statements of the document: the empty materials are its only violation
C10_Witness ==
  /\ OnlyMaterialsMissing(drmdData)
  /\ uploads = 1
  /\ Len(getValidationReport(drmdData).errors) = 1

-----------------------------------------------------------------------------
(* Claims about the XML encoder and decoder, checked under SpecCodec.      *)

\* the text fields of a and b are equal, an absent field counted as empty
SameTexts(a, b, fields) ==
  \A f \in fields : Or(Get(a, f), EMPTY) = Or(Get(b, f), EMPTY)

SameValidity(a, b) ==
  /\ a.validityType = b.validityType
  /\ a.validityType = <<"S", "p", "e", "c", "i", "f", "i", "c", " ", "T", "i", "m", "e">> => a.specificTime = b.specificTime
  /\ a.validityType = <<"T", "i", "m", "e", " ", "A", "f", "t", "e", "r", " ", "D", "i", "s", "p", "a", "t", "c", "h">>
       => /\ a.durationY = b.durationY
          /\ a.durationM = b.durationM
          /\ a.dateOfIssue = b.dateOfIssue

SameProducer(a, b) ==
  /\ SameTexts(a, b, {"name", "email", "phone", "fax"})
  /\ SameTexts(GetObject(a, "address"), GetObject(b, "address"),
               {"street", "streetNo", "postCode", "city", "countryCode"})

SamePerson(a, b) ==
  /\ SameTexts(a, b, {"name", "role", "description"})
  /\ a.mainSigner = b.mainSigner

SameMaterial(a, b) ==
  SameTexts(a, b, {"name", "description", "minimumSampleSize", "itemQuantities"})

SameQuantity(a, b) ==
  SameTexts(a, b, {"name", "value", "unit", "uncertainty"})

SameQuantities(a, b) ==
  /\ Len(a) = Len(b)
  /\ \A i \in 1..Len(a) : SameQuantity(a[i], b[i])

SameResult(a, b) ==
  /\ SameTexts(a, b, {"name", "description"})
  /\ SameQuantities(a.quantities, b.quantities)

SameResults(a, b) ==
  /\ Len(a) = Len(b)
  /\ \A i \in 1..Len(a) : SameResult(a[i], b[i])

SameProperty(a, b) ==
  /\ SameTexts(a, b, {"name", "description", "procedures"})
  /\ a.isCertified = b.isCertified
  /\ SameResults(a.results, b.results)

SameList(a, b, Same(_, _)) ==
  /\ Len(a) = Len(b)
  /\ \A i \in 1..Len(a) : Same(a[i], b[i])

\* every scalar field of d has an equal value in out; identifiers and
\* coordinates are not compared
ScalarsReproduced(d, out) ==
  /\ SameTexts(d.administrativeData, out.administrativeData,
               {"title", "uniqueIdentifier"})
  /\ SameValidity(d.administrativeData, out.administrativeData)
  /\ SameList(d.administrativeData.producers, out.administrativeData.producers,
              SameProducer)
  /\ SameList(d.administrativeData.responsiblePersons,
              out.administrativeData.responsiblePersons, SamePerson)
  /\ SameList(d.materials, out.materials, SameMaterial)
  /\ SameList(d.properties, out.properties, SameProperty)
  /\ SameTexts(d.statements.official, out.statements.official,
               DOMAIN INITIAL_DRMD.statements.official)
  /\ SameTexts(d, out, {"generalComment"})

\* C2: for every document d, parseDrmdXml(generateDrmdXml(d)) has an equal
\* value in every scalar field of d (title, validity type and its
\* parameters, the fields of producers, persons, materials, properties,
\* results and quantities, value, unit, minimumSampleSize and itemQuantities
\* included, the official statements, the comment); only identifiers and
\* coordinates may differ.
C2_RoundTripReproducesScalars ==
  cdPhase = "decoded" => ScalarsReproduced(cdDoc, cdOut)

-----------------------------------------------------------------------------
(* Claims about files the decoder is given (SpecCodec, action Receive).    *)

\* the decoder failed: its result is the thrown error and no document
Failed(out) == DOMAIN out = {"error"}

\* C11: parseDrmdXml on markup the parser cannot parse fails with the
\* error "Invalid XML file structure" and returns no document, not even a
\* part of one; a decoding that fails fails with this error and no other.
C11_UnparsableMarkupFails ==
  cdPhase \in {"decoded", "imported"} =>
    /\ ~WellFormed(cdXml) => Failed(cdOut)
    /\ Failed(cdOut) => cdOut.error = <<"Invalid", "XML", "file", "structure">>
    /\ ~Failed(cdOut) => DOMAIN INITIAL_DRMD \subseteq DOMAIN cdOut

C11_Witness ==
  /\ cdPhase = "imported"
  /\ ~WellFormed(cdXml)
  /\ Failed(cdOut)

\* the file has no element of the tag
Absent(xml, tag) == Len(getElementsByTagName(xml, tag)) = 0

AllQuantities(props) ==
  Flatten([i \in 1..Len(props) |->
             Flatten([j \in 1..Len(props[i].results) |->
                        props[i].results[j].quantities])])

\* each field of the administrative data whose element the file lacks has
\* the value of the initial document
AdministrativeDefaults(xml, admin, init) ==
  /\ Absent(xml, "drmd:titleOfTheDocument") => admin.title = init.title
  /\ Absent(xml, "drmd:uniqueIdentifier")
       => admin.uniqueIdentifier = init.uniqueIdentifier
  /\ Absent(xml, "drmd:validity")
       => /\ admin.validityType = init.validityType
          /\ admin.durationY = init.durationY
          /\ admin.durationM = init.durationM
  /\ Absent(xml, "drmd:period")
       => admin.durationY = init.durationY /\ admin.durationM = init.durationM
  /\ Absent(xml, "drmd:dispatchDate") => admin.dateOfIssue = init.dateOfIssue
  /\ Absent(xml, "drmd:specificTime") => admin.specificTime = init.specificTime
  /\ Absent(xml, "drmd:referenceMaterialProducer")
       => admin.producers = init.producers
  /\ Absent(xml, "dcc:respPerson")
       => admin.responsiblePersons = init.responsiblePersons

ProducerDefaults(xml, producers) ==
  \A i \in 1..Len(producers) :
    /\ Absent(xml, "dcc:eMail") => producers[i].email = INITIAL_PRODUCER.email
    /\ Absent(xml, "dcc:phone") => producers[i].phone = INITIAL_PRODUCER.phone
    /\ Absent(xml, "dcc:location")
         => producers[i].address = INITIAL_PRODUCER.address

PersonDefaults(xml, persons) ==
  \A i \in 1..Len(persons) :
    /\ Absent(xml, "dcc:role") => persons[i].role = INITIAL_PERSON.role
    /\ Absent(xml, "dcc:mainSigner")
         => persons[i].mainSigner = INITIAL_PERSON.mainSigner

QuantityDefaults(xml, quantities) ==
  \A i \in 1..Len(quantities) :
    /\ Absent(xml, "si:value") => quantities[i].value = INITIAL_QUANTITY.value
    /\ Absent(xml, "si:unit") => quantities[i].unit = INITIAL_QUANTITY.unit
    /\ Absent(xml, "si:valueExpandedMU")
         => quantities[i].uncertainty = INITIAL_QUANTITY.uncertainty
    /\ Absent(xml, "si:coverageFactor")
         => quantities[i].coverageFactor = INITIAL_QUANTITY.coverageFactor
    /\ Absent(xml, "si:coverageProbability")
         => quantities[i].coverageProbability
              = INITIAL_QUANTITY.coverageProbability

DefaultsForAbsent(xml, out) ==
  /\ ~Failed(out)
  /\ AdministrativeDefaults(xml, out.administrativeData,
                            INITIAL_DRMD.administrativeData)
  /\ ProducerDefaults(xml, out.administrativeData.producers)
  /\ PersonDefaults(xml, out.administrativeData.responsiblePersons)
  /\ Absent(xml, "drmd:material") => out.materials = INITIAL_DRMD.materials
  /\ Absent(xml, "drmd:materialProperties")
       => out.properties = INITIAL_DRMD.properties
  /\ QuantityDefaults(xml, AllQuantities(out.properties))
  /\ Absent(xml, "drmd:statements") => out.statements = INITIAL_DRMD.statements

\* C12: for every well-formed XML input, whichever optional elements it
\* lacks, parseDrmdXml returns a document and does not throw, and every
\* field whose element is absent holds the value that field has in the
\* initial document (empty text, the default validity, the default lists).
C12_AbsentElementsGiveDefaults ==
  (cdPhase \in {"decoded", "imported"} /\ WellFormed(cdXml))
    => DefaultsForAbsent(cdXml, cdOut)

-----------------------------------------------------------------------------
(* Further claims about the application, checked under Spec.               *)

\* the object has a value for each of the fields
HasFields(o, fields) == fields \subseteq DOMAIN o

FilledProducer(p) ==
  /\ HasFields(p, {"uuid", "name", "email", "phone", "address",
                   "organizationIdentifiers"})
  /\ HasFields(p.address, {"street", "streetNo", "postCode", "city", "countryCode"})

FilledPerson(p) ==
  HasFields(p, {"uuid", "name", "role", "description", "mainSigner"})

FilledMaterial(m) ==
  HasFields(m, {"uuid", "name", "materialClass", "description", "itemQuantities",
                "minimumSampleSize", "materialIdentifiers"})

FilledQuantity(q) ==
  HasFields(q, {"uuid", "name", "value", "unit", "uncertainty", "coverageFactor",
                "coverageProbability", "distribution", "dsiValue", "dsiUnit",
                "identifiers"})

FilledResult(r) ==
  /\ HasFields(r, {"uuid", "name", "description", "quantities"})
  /\ \A i \in 1..Len(r.quantities) : FilledQuantity(r.quantities[i])

FilledProperty(p) ==
  /\ HasFields(p, {"uuid", "name", "isCertified", "description", "results"})
  /\ \A i \in 1..Len(p.results) : FilledResult(p.results[i])

\* every field of the document and of its entities has a value
Filled(d) ==
  /\ HasFields(d.administrativeData,
               {"title", "uniqueIdentifier", "validityType", "durationY",
                "durationM", "dateOfIssue", "specificTime"})
  /\ \A i \in 1..Len(d.administrativeData.producers) :
       FilledProducer(d.administrativeData.producers[i])
  /\ \A i \in 1..Len(d.administrativeData.responsiblePersons) :
       FilledPerson(d.administrativeData.responsiblePersons[i])
  /\ \A i \in 1..Len(d.materials) : FilledMaterial(d.materials[i])
  /\ \A i \in 1..Len(d.properties) : FilledProperty(d.properties[i])
  /\ HasFields(d.statements.official, DOMAIN INITIAL_DRMD.statements.official)

\* C13: for every extraction payload, whichever of its fields, lists and
\* nested objects are absent, the normalization (the validity, specific-time
\* and address fix-ups and the update of the document) completes without
\* an error and yields a document in which every field the payload lacks
\* has an empty or a default value; the D-SI conversion of its quantities
\* gives a value and a unit for whatever value and unit they have.
C13_NormalizationFillsDefaults ==
  [][ExtractionResolves => (error' = error /\ Filled(drmdData'))]_vars


\* a step that replaces the document: the mount effect, an edit, a resolved
\* extraction
Replaces == Mount \/ edits' # edits \/ ExtractionResolves

\* the tree the step started from holds afterwards what it held before
PreviousTreeKept == Replaces => prevData' = drmdData

\* the default document holds afterwards what it held before
DefaultsKept == initialDrmd' = initialDrmd

\* the payload holds afterwards what the extraction returned
PayloadKept ==
  ExtractionResolves
    => \E f \in pending \ pending' :
         payload' = extractStructuredDataFromPdf(Responses[f])

\* C19: every edit, merge and replacement builds a new tree and leaves
\* unchanged the tree it started from, the default document INITIAL_DRMD with
\* its default producer and person, and the extraction payload: no operation
\* writes into an object that an earlier tree holds.
C19_EarlierTreesUnchanged ==
  [][PreviousTreeKept /\ DefaultsKept /\ PayloadKept]_vars


\* the results of the incoming properties in the order of arrival
IncomingFlat(ps) == Flatten([i \in 1..Len(ps) |-> GetList(ps[i], "results")])

\* the quantities of the results that are fragments
FragmentQuantities(rs) ==
  Flatten([i \in 1..Len(rs) |->
             IF isFragment(rs[i]) THEN GetList(rs[i], "quantities") ELSE <<>>])

IsSeparate(r) == ~isFragment(r)

NamesOf(qs) == [i \in 1..Len(qs) |-> Get(qs[i], "name")]

OneKey(ps) == \A i \in 1..Len(ps) : PropertyKey(ps[i]) = PropertyKey(ps[1])

\* out is one property; its first result holds the quantities of the first
\* incoming result and of every fragment after it, in the order of arrival;
\* each later result that is not a fragment is a result of its own
MergedAs(out, flat, separate) ==
  /\ Len(out) = 1
  /\ Len(out[1].results) = 1 + Len(separate)
  /\ NamesOf(out[1].results[1].quantities)
       = NamesOf(GetList(flat[1], "quantities") \o FragmentQuantities(Tail(flat)))
  /\ \A k \in 1..Len(separate) :
       NamesOf(out[1].results[k + 1].quantities)
         = NamesOf(GetList(separate[k], "quantities"))

-----------------------------------------------------------------------------
(* Claims about the encoder, checked under SpecCodec.                      *)

\* t is a run of digits and points, with an exponent or without
IsNumericRun(t) ==
  \E k \in 1..Len(t) :
    /\ \A i \in 1..k : IsNumChar(t[i])
    /\ \/ k = Len(t)
       \/ /\ k + 1 < Len(t)
          /\ t[k + 1] \in {"e", "E"}
          /\ \A i \in (k + 2 + SignLen(t, k + 2))..Len(t) : IsDigit(t[i])
          /\ k + 2 + SignLen(t, k + 2) <= Len(t)

\* s is a numeric run of n characters, white space, and a unit token that
\* begins at index p and goes to the end of s on one line
SplitsAt(s, n, p) ==
  /\ IsNumericRun(SubSeq(s, 1, n))
  /\ \A i \in (n + 1)..(p - 1) : IsWs(s[i])
  /\ ~IsWs(s[p])
  /\ \A i \in p..Len(s) : ~IsLineEnd(s[i])

Splits(s) ==
  { c \in (1..Len(s)) \X (1..Len(s)) : c[1] < c[2] /\ SplitsAt(s, c[1], c[2]) }

\* the real element for the number and the unit of a split, if the unit
\* resolves
RealOf(dsi) ==
  El("drmd:real", <<Leaf("si:value", escapeXml(dsi.dsiValue)),
                    Leaf("si:unit", escapeXml(dsi.dsiUnit))>>)

ResolvingSplits(s) ==
  { c \in Splits(s) :
      Truthy(convertToDSI(SubSeq(s, 1, c[1]), SubSeq(s, c[2], Len(s))).dsiUnit) }

\* el is the one alternative the text calls for
IsAlternativeOf(el, text, s) ==
  IF Falsy(text) \/ text = <<"n", "o", "Q", "u", "a", "n", "t", "i", "t", "y">>
  THEN el = NoQuantity(<<"n", "o", "Q", "u", "a", "n", "t", "i", "t", "y">>)
  ELSE IF ResolvingSplits(s) # {}
  THEN \E c \in ResolvingSplits(s) :
         el = RealOf(convertToDSI(SubSeq(s, 1, c[1]), SubSeq(s, c[2], Len(s))))
  ELSE el = NoQuantity(escapeXml(text))

\* the dcc:itemQuantity elements of the containers of the given tag hold one
\* element each, the alternative of the text of their material
AlternativesOf(containers, texts) ==
  /\ Len(containers) = Len(texts)
  /\ \A i \in 1..Len(texts) :
       /\ Len(ChildElements(containers[i])) = 1
       /\ Len(ChildElements(ChildElements(containers[i])[1])) = 1
       /\ IsAlternativeOf(ChildElements(ChildElements(containers[i])[1])[1],
                          texts[i], trim(texts[i]))

MinimumSampleSizes(materials) ==
  [i \in 1..Len(materials) |-> Or(Get(materials[i], "minimumSampleSize"), EMPTY)]

\* the item quantities the encoder writes: the ones that are not empty
ItemQuantities(materials) ==
  SelectSeq([i \in 1..Len(materials) |-> Or(Get(materials[i], "itemQuantities"), EMPTY)],
            Truthy)

\* C14: for every text of a minimum sample size or of item quantities the
\* encoder writes exactly one of the two alternatives: drmd:real with the
\* converted value and the D-SI unit exactly when the trimmed text is a
\* numeric run (with an optional exponent) followed by a unit token that
\* convertToDSI resolves, and drmd:noQuantity with the text otherwise; an
\* empty text and the text "noQuantity" give the literal noQuantity.  A text
\* that begins with a token that is not numeric gives drmd:noQuantity.
C14_PrimitiveQuantityAlternatives ==
  cdPhase = "encoded" =>
    /\ AlternativesOf(getElementsByTagName(cdXml, "drmd:minimumSampleSize"),
                      MinimumSampleSizes(cdDoc.materials))
    /\ AlternativesOf(getElementsByTagName(cdXml, "drmd:itemQuantities"),
                      ItemQuantities(cdDoc.materials))

\* the encoded document has a real and a noQuantity alternative
C14_Witness ==
  /\ cdPhase = "encoded"
  /\ Len(cdDoc.materials) = 1
  /\ cdDoc.materials[1].minimumSampleSize = <<"a", "p", "p", "r", "o", "x", " ", "5", " ", "g">>
  /\ Len(getElementsByTagName(cdXml, "drmd:noQuantity")) = 1
  /\ Len(getElementsByTagName(cdXml, "drmd:real")) = 1

\* the text of a period of y years and m months: a component that is zero
\* is left out, and P0Y stands for no duration at all
PeriodText(y, m) ==
  IF y = 0 /\ m = 0 THEN <<"P", "0", "Y">>
  ELSE IF m = 0 THEN <<"P">> \o IntToChars(y) \o <<"Y">>
  ELSE IF y = 0 THEN <<"P">> \o IntToChars(m) \o <<"M">>
  ELSE <<"P">> \o IntToChars(y) \o <<"Y">> \o IntToChars(m) \o <<"M">>

\* the tag of the alternative of a validity type
ValidityTag(validityType) ==
  CASE validityType = <<"U", "n", "t", "i", "l", " ", "R", "e", "v", "o", "k", "e", "d">> -> "drmd:untilRevoked"
    [] validityType = <<"S", "p", "e", "c", "i", "f", "i", "c", " ", "T", "i", "m", "e">> -> "drmd:specificTime"
    [] validityType = <<"T", "i", "m", "e", " ", "A", "f", "t", "e", "r", " ", "D", "i", "s", "p", "a", "t", "c", "h">> -> "drmd:timeAfterDispatch"

\* the validity elements hold the one alternative of the document
OneValidity(validities, admin) ==
  /\ Len(validities) = 1
  /\ Len(ChildElements(validities[1])) = 1
  /\ ChildElements(validities[1])[1].tag = ValidityTag(admin.validityType)
  /\ admin.validityType = <<"T", "i", "m", "e", " ", "A", "f", "t", "e", "r", " ", "D", "i", "s", "p", "a", "t", "c", "h">>
       => getTagContent(validities[1], "drmd:period")
            = PeriodText(admin.durationY, admin.durationM)

SameDuration(a, b) ==
  /\ a.validityType = b.validityType
  /\ a.validityType = <<"T", "i", "m", "e", " ", "A", "f", "t", "e", "r", " ", "D", "i", "s", "p", "a", "t", "c", "h">>
       => a.durationY = b.durationY /\ a.durationM = b.durationM

\* C15: the encoder writes exactly one of the three validity alternatives
\* (untilRevoked, specificTime, timeAfterDispatch); for Time After Dispatch
\* the period is P<Y>Y<M>M without a component that is zero, and P0Y when
\* both are zero, and decoding it gives the same years and months and the
\* same validity type.
C15_ValidityRoundTrip ==
  /\ cdPhase \in {"encoded", "decoded"}
       => OneValidity(getElementsByTagName(cdXml, "drmd:validity"),
                      cdDoc.administrativeData)
  /\ (cdPhase = "decoded" /\ ~Failed(cdOut))
       => SameDuration(cdDoc.administrativeData, cdOut.administrativeData)

\* a duration of months alone, more than a year, was written and read
C15_Witness ==
  /\ cdPhase = "decoded"
  /\ cdDoc.administrativeData.validityType = <<"T", "i", "m", "e", " ", "A", "f", "t", "e", "r", " ", "D", "i", "s", "p", "a", "t", "c", "h">>
  /\ cdDoc.administrativeData.durationY = 0
  /\ cdDoc.administrativeData.durationM = 18
  /\ getTagContent(cdXml, "drmd:period") = <<"P", "1", "8", "M">>
  /\ cdOut.administrativeData.durationM = 18

\* the characters a written text stands for
Characters(node, tag) == DecodeFrom(getTagContent(node, tag), 1)

\* the quantity element holds the value as entered, the D-SI unit, or the
\* unit as entered when there is none, and the uncertainty when there is one
IsQuantityOf(el, q) ==
  /\ Len(getElementsByTagName(el, "si:value")) = 1
  /\ Characters(el, "si:value") = Get(q, "value")
  /\ Len(getElementsByTagName(el, "si:unit")) = 1
  /\ Characters(el, "si:unit")
       = (IF Get(q, "dsiUnit") \notin {NULL, EMPTY} THEN q.dsiUnit ELSE Get(q, "unit"))
  /\ Len(getElementsByTagName(el, "si:measurementUncertaintyUnivariate"))
       = (IF Get(q, "uncertainty") \notin {NULL, EMPTY} THEN 1 ELSE 0)
  /\ Get(q, "uncertainty") \notin {NULL, EMPTY}
       => Characters(el, "si:valueExpandedMU") = q.uncertainty

QuantitiesWritten(els, qs) ==
  /\ Len(els) = Len(qs)
  /\ \A i \in 1..Len(qs) : IsQuantityOf(els[i], qs[i])

\* C16: for each quantity the encoder writes the value as entered, not the
\* scaled value, into si:value, and into si:unit the D-SI unit when it is not
\* empty and the unit as entered otherwise; the uncertainty block is written
\* exactly when the uncertainty is not empty.
C16_QuantityValueAndUnit ==
  cdPhase = "encoded"
    => QuantitiesWritten(getElementsByTagName(cdXml, "drmd:quantity"),
                         AllQuantities(cdDoc.properties))

\* a scaled quantity without uncertainty and one with uncertainty whose unit
\* has no D-SI form were written
C16_Witness ==
  /\ cdPhase = "encoded"
  /\ \E i \in 1..Len(AllQuantities(cdDoc.properties)) :
        /\ AllQuantities(cdDoc.properties)[i].dsiValue
             # AllQuantities(cdDoc.properties)[i].value
        /\ AllQuantities(cdDoc.properties)[i].dsiUnit # EMPTY
        /\ ~Truthy(Get(AllQuantities(cdDoc.properties)[i], "uncertainty"))
  /\ \E i \in 1..Len(AllQuantities(cdDoc.properties)) :
        /\ AllQuantities(cdDoc.properties)[i].dsiUnit = EMPTY
        /\ Truthy(Get(AllQuantities(cdDoc.properties)[i], "uncertainty"))
  /\ QuantitiesWritten(getElementsByTagName(cdXml, "drmd:quantity"),
                       AllQuantities(cdDoc.properties))

\* s holds none of < > ' " from position i on, and & only where one of the
\* five entities begins
RECURSIVE EscapedFrom(_, _)
EscapedFrom(s, i) ==
  IF i > Len(s) THEN TRUE
  ELSE IF s[i] \in {"<", ">", "'", "\""} THEN FALSE
  ELSE IF s[i] = "&"
  THEN EntityAt(s, i) # 0 /\ EscapedFrom(s, i + Len(Entities[EntityAt(s, i)].name))
  ELSE EscapedFrom(s, i + 1)

\* the character data below a node is escaped
RECURSIVE NoMarkup(_)
NoMarkup(node) ==
  IF IsElement(node)
  THEN \A i \in 1..Len(node.kids) : NoMarkup(node.kids[i])
  ELSE EscapedFrom(node.text, 1)

\* C17: every string of the document is written through escapeXml, whose
\* output holds none of < > ' " and holds & only at the start of one of the
\* five entities, so that no field of the document brings markup into the
\* generated file.
C17_NoFieldIntroducesMarkup == cdPhase = "encoded" => NoMarkup(cdXml)

\* the fields other than the embedded document are written escaped
C17_EscapedButDocument ==
  cdPhase = "encoded" => NoMarkup(Without(cdXml, "drmd:document"))

\* the stored D-SI value and unit of q are those of its value and unit
IsConverted(q) ==
  /\ Get(q, "dsiValue") = convertToDSI(Get(q, "value"), Get(q, "unit")).dsiValue
  /\ Get(q, "dsiUnit") = convertToDSI(Get(q, "value"), Get(q, "unit")).dsiUnit

AllConverted(qs) == \A i \in 1..Len(qs) : IsConverted(qs[i])

\* the quantities of the edited document are converted
C18_EditedQuantitiesConverted == AllConverted(AllQuantities(drmdData.properties))

\* C18: in every document state (after the extraction is normalised, after
\* an edit of a quantity's value or unit, after a row is added, and after an
\* XML document is decoded) the stored dsiValue and dsiUnit of each quantity
\* are convertToDSI of its value and unit.
C18_StoredDsiIsConversion ==
  /\ AllConverted(AllQuantities(drmdData.properties))
  /\ (cdPhase \in {"decoded", "imported"} /\ ~Failed(cdOut))
       => AllConverted(AllQuantities(cdOut.properties))

-----------------------------------------------------------------------------
(* The merge of the extracted properties: classification of results,       *)
(* grouping by key, relocation of footnotes.                               *)

\* the names of a unit header
HeaderNames == { <<"i", "n", " ", "m", "g", "/", "k", "g">>, <<"i", "n", " ", "%">>, <<"m", "g", "/", "k", "g">>, <<"%">>, EMPTY }

\* the name of r, lower-cased and trimmed, is exactly a unit header
IsHeader(r) == trim(toLowerCase(Or(Get(r, "name"), EMPTY))) \in HeaderNames

IsTable(r) == ~IsHeader(r)

\* C21: an incoming result is a fragment exactly when its name, lower-cased
\* and trimmed, is one of "in mg/kg", "in %", "mg/kg", "%" or empty; a result
\* whose longer name only contains one of them is kept as a table of its own.
C21_FragmentIsExactHeader ==
  (mgPhase = "merged" /\ OneKey(mgProps) /\ Len(IncomingFlat(mgProps)) > 0)
    => /\ Len(mgOut) = 1
       /\ Len(mgOut[1].results)
            = 1 + Len(SelectSeq(Tail(IncomingFlat(mgProps)), IsTable))

\* property i is the first of its key
FirstSeen(ps, i) == \A k \in 1..(i - 1) : PropertyKey(ps[k]) # PropertyKey(ps[i])

IsFootnoted(p) == isFootnote(trim(Or(Get(p, "description"), EMPTY)))

\* the fields other than the results
PropertyFields == {"name", "description", "procedures", "isCertified"}

\* the field f a property takes from the first property p of its key: its
\* description is empty when it is a footnote
FieldFrom(p, f) ==
  IF f = "description" /\ IsFootnoted(p) THEN EMPTY ELSE Get(p, f)

\* an absent description counts as an empty one
SameField(a, b, f) ==
  IF f = "description" THEN Or(a, EMPTY) = Or(b, EMPTY) ELSE a = b

TakesFieldsOf(q, p) ==
  /\ PropertyKey(q) = PropertyKey(p)
  /\ \A f \in PropertyFields : SameField(Get(q, f), FieldFrom(p, f), f)

\* C22: the incoming properties are grouped by the key of their name (lower
\* case, every character that is not a letter or digit deleted); the first
\* property of a key gives the name, description, procedures and isCertified
\* of the property of the group, and a later property of the key brings its
\* results and changes no other field.
C22_FirstSeenSuppliesFields ==
  mgPhase = "merged"
    => /\ Len(mgOut) = Cardinality({PropertyKey(mgProps[i]) : i \in 1..Len(mgProps)})
       /\ \A i \in 1..Len(mgProps) :
            FirstSeen(mgProps, i)
              => \E j \in 1..Len(mgOut) : TakesFieldsOf(mgOut[j], mgProps[i])

\* the description a result takes when the footnote is put in front of it
FootnoteFirst(footnote, r) ==
  IF Falsy(Get(r, "description")) THEN footnote
  ELSE footnote \o <<"\n">> \o r.description

\* the property that out holds for the key of p
OutputOf(out, p) == out[CHOOSE j \in 1..Len(out) : PropertyKey(out[j]) = PropertyKey(p)]

\* the property with footnote p, the first of its key, comes out with an
\* empty description and with the footnote in front of the description of
\* its first result
FootnoteRelocated(q, p) ==
  /\ Falsy(Get(q, "description"))
  /\ Len(q.results) > 0
  /\ startsWith(Or(Get(q.results[1], "description"), EMPTY),
                FootnoteFirst(trim(p.description), p.results[1]))

\* C23: an incoming property whose trimmed description starts with digits
\* and ')' or with '*' comes out with an empty description, and the footnote
\* stands at the front of the description of its first result, followed by a
\* line end and the description the result had when that was not empty.
C23_FootnoteInFrontOfResult ==
  mgPhase = "merged"
    => \A i \in 1..Len(mgProps) :
         (IsFootnoted(mgProps[i]) /\ FirstSeen(mgProps, i)
            /\ Len(GetList(mgProps[i], "results")) > 0)
           => FootnoteRelocated(OutputOf(mgOut, mgProps[i]), mgProps[i])

\* the same for footnoted properties whose first result has no description
C23_FootnoteAlone ==
  mgPhase = "merged"
    => \A i \in 1..Len(mgProps) :
         (IsFootnoted(mgProps[i]) /\ FirstSeen(mgProps, i)
            /\ Len(GetList(mgProps[i], "results")) > 0
            /\ Falsy(Get(mgProps[i].results[1], "description")))
           => FootnoteRelocated(OutputOf(mgOut, mgProps[i]), mgProps[i])

\* the descriptions of the results of the properties
ResultDescriptions(props) ==
  Flatten([i \in 1..Len(props) |->
             [j \in 1..Len(props[i].results) |->
                Or(Get(props[i].results[j], "description"), EMPTY)]])

AppearsIn(text, descriptions) ==
  \E k \in 1..Len(descriptions) : includes(descriptions[k], text)

\* the description of p, which is no footnote, is the one that comes out
DescriptionKept(q, p) == Or(Get(q, "description"), EMPTY) = Or(Get(p, "description"), EMPTY)

\* C27: the relocation of footnotes loses no text: the description of every
\* incoming property that is a footnote appears in the description of some
\* result that comes out, also when the property has no results, and the
\* footnote of a later property of a key does not erase the description of
\* the first property of that key when that is no footnote.
C27_FootnoteTextKept ==
  mgPhase = "merged"
    => \A i \in 1..Len(mgProps) :
         /\ IsFootnoted(mgProps[i])
              => AppearsIn(trim(mgProps[i].description), ResultDescriptions(mgOut))
         /\ (FirstSeen(mgProps, i) /\ ~IsFootnoted(mgProps[i]))
              => DescriptionKept(OutputOf(mgOut, mgProps[i]), mgProps[i])

\* the footnote of a property that brings a result is kept
C27_FootnoteWithResultKept ==
  mgPhase = "merged"
    => \A i \in 1..Len(mgProps) :
         (IsFootnoted(mgProps[i]) /\ Len(GetList(mgProps[i], "results")) > 0)
           => AppearsIn(trim(mgProps[i].description), ResultDescriptions(mgOut))

-----------------------------------------------------------------------------
(* The validity of an extraction.                                          *)

IsDuration(admin) == admin.validityType = <<"T", "i", "m", "e", " ", "A", "f", "t", "e", "r", " ", "D", "i", "s", "p", "a", "t", "c", "h">>

IsSpecificTime(admin) == admin.validityType = <<"S", "p", "e", "c", "i", "f", "i", "c", " ", "T", "i", "m", "e">>

TotalMonths(admin) == admin.durationY * 12 + admin.durationM

\* the text of the drmd:period element of a Time After Dispatch validity
PeriodWritten(xml) == xml[1].kids[2].kids[1].text

\* C24: for every extraction with a Time After Dispatch validity of
\* non-negative whole years and months, the duration of the document has
\* between 0 and 11 months and as many months in all as the extraction;
\* a validity of twelve months in all is encoded as the period P1Y.
C24_DurationCarried ==
  (vlPhase \in {"normalized", "encoded"} /\ IsDuration(vlAdmin))
    => /\ vlOut.durationM \in 0..11
       /\ vlOut.durationY \in Nat
       /\ TotalMonths(vlOut) = TotalMonths(vlAdmin)
       /\ (vlPhase = "encoded" /\ TotalMonths(vlAdmin) = 12)
            => PeriodWritten(vlXml) = <<"P", "1", "Y">>

\* "valid for 12 months" has been normalized and encoded
C24_Witness ==
  /\ vlPhase = "encoded"
  /\ IsDuration(vlAdmin)
  /\ vlAdmin.durationY = 0
  /\ vlAdmin.durationM = 12
  /\ vlOut.durationY = 1
  /\ vlOut.durationM = 0

\* s is YYYY-MM-DD and names a day of the calendar
IsCalendarDate(s) ==
  /\ Len(s) = 10
  /\ DigitRun(s, 1) = 4
  /\ s[5] = "-"
  /\ DigitRun(s, 6) = 2
  /\ s[8] = "-"
  /\ DigitRun(s, 9) = 2
  /\ DigitsValue(s, 6, 2) \in 1..12
  /\ DigitsValue(s, 9, 2) \in 1..DaysInMonth(DigitsValue(s, 1, 4), DigitsValue(s, 6, 2))

\* the token is one or two digits, a slash and four digits
IsMonthYear(t) == MatchesMonthYear(t, DigitRun(t, 1))

MonthOf(t) == DigitsValue(t, 1, DigitRun(t, 1))

YearOf(t) == DigitsValue(t, DigitRun(t, 1) + 2, 4)

\* YYYY-MM-DD of the last day of month m of year y
LastDate(y, m) ==
  IntToChars(y) \o <<"-">> \o padStart2(IntToChars(m)) \o <<"-">>
    \o IntToChars(DaysInMonth(y, m))

\* the specific time of the document is the last day of the month of token t
RewrittenToLastDay(t) ==
  /\ vlOut.specificTime = LastDate(YearOf(t), MonthOf(t))
  /\ IsCalendarDate(vlOut.specificTime)

\* C25: a specific time given as MM/YYYY or M/YYYY becomes the ISO date of
\* the last calendar day of that month, leap years included, and a token
\* whose month is not one of 1..12 is not rewritten into an invalid date.
C25_LastDayOfMonth ==
  (/\ vlPhase \in {"normalized", "encoded"}
   /\ IsSpecificTime(vlAdmin)
   /\ IsMonthYear(trim(vlAdmin.specificTime)))
    => IF MonthOf(trim(vlAdmin.specificTime)) \in 1..12
       THEN RewrittenToLastDay(trim(vlAdmin.specificTime))
       ELSE \/ vlOut.specificTime = vlAdmin.specificTime
            \/ IsCalendarDate(vlOut.specificTime)

\* the months 1..12 are rewritten to their last day
C25_MonthsRewritten ==
  (/\ vlPhase \in {"normalized", "encoded"}
   /\ IsSpecificTime(vlAdmin)
   /\ IsMonthYear(trim(vlAdmin.specificTime))
   /\ MonthOf(trim(vlAdmin.specificTime)) \in 1..12)
    => RewrittenToLastDay(trim(vlAdmin.specificTime))

\* 02/2024 has become 2024-02-29
C25_LeapYear ==
  /\ vlPhase = "normalized"
  /\ vlAdmin.validityType = <<"S", "p", "e", "c", "i", "f", "i", "c", " ", "T", "i", "m", "e">>
  /\ vlAdmin.specificTime = <<"0", "2", "/", "2", "0", "2", "4">>
  /\ vlOut.specificTime = <<"2", "0", "2", "4", "-", "0", "2", "-", "2", "9">>

-----------------------------------------------------------------------------
(* The lists of the document under add, remove and extraction.             *)

\* C26: after any sequence of add, remove and extraction operations the
\* producers and the responsible persons each have at least one entry, and
\* the materials, once they have an entry, never become empty again.
C26_ListsStayNonEmpty ==
  /\ [](/\ Len(drmdData.administrativeData.producers) >= 1
        /\ Len(drmdData.administrativeData.responsiblePersons) >= 1)
  /\ [][Len(drmdData.materials) >= 1 => Len(drmdData'.materials) >= 1]_vars

\* after an extraction and a remove one producer, the second of the
\* extracted ones, and one material are left
C26_Witness ==
  /\ uploads = 1
  /\ pending = {}
  /\ edits > 0
  /\ Len(drmdData.administrativeData.producers) = 1
  /\ drmdData.administrativeData.producers[1].uuid # EMPTY
  /\ drmdData.administrativeData.producers[1].name = EMPTY
  /\ Len(drmdData.administrativeData.responsiblePersons) = 1
  /\ Len(drmdData.materials) = 1

-----------------------------------------------------------------------------
(* The decoder and the elements of an entity.                              *)

\* the drmd:materialProperties elements of a file
PropertyElements(xml) == getElementsByTagName(xml, "drmd:materialProperties")

\* el has an element of this tag of its own
HasOwn(el, tag) == \E k \in 1..Len(el.kids) : el.kids[k].tag = tag

\* the text of el's own element of this tag below the given path
OwnContent(el, tag, path) ==
  IF HasOwn(el, tag)
  THEN getNestedContent(SelectSeq(el.kids, LAMBDA kid : kid.tag = tag)[1], path)
  ELSE EMPTY

\* C28: the decoder reads the fields of a property only from the elements
\* of that property: a drmd:materialProperties element without a
\* description element of its own decodes to an empty description, also
\* when one of its results has a description.
C28_OwnFieldsOnly ==
  cdPhase = "decoded"
    => \A i \in 1..Len(PropertyElements(cdXml)) :
         /\ cdOut.properties[i].description
              = OwnContent(PropertyElements(cdXml)[i], "drmd:description",
                           <<"dcc:content">>)
         /\ cdOut.properties[i].name
              = OwnContent(PropertyElements(cdXml)[i], "drmd:name", <<"dcc:content">>)

\* a property with a description element of its own decodes to the text of
\* that element
C28_OwnDescriptionRead ==
  cdPhase = "decoded"
    => \A i \in 1..Len(PropertyElements(cdXml)) :
         HasOwn(PropertyElements(cdXml)[i], "drmd:description")
           => cdOut.properties[i].description
                = OwnContent(PropertyElements(cdXml)[i], "drmd:description",
                             <<"dcc:content">>)

-----------------------------------------------------------------------------
(* Overlapping uploads.                                                    *)

\* the file the viewer displays: the one uploaded last
Displayed == CHOOSE f \in 1..Len(Responses) : pdfUrl = <<"blob", Digits[f + 1]>>

\* the extraction of file f as the updater sees it
ExtractionOf(f) == NormalizeExtracted(extractStructuredDataFromPdf(Responses[f]))

EntityNames(list) == [i \in 1..Len(list) |-> Or(Get(list[i], "name"), EMPTY)]

\* list holds the entities made of the extracted ones, when there are any
MadeOf(list, extracted) ==
  Len(extracted) > 0 => EntityNames(list) = EntityNames(extracted)

\* the producers, persons, materials and properties of the document are
\* those of the extraction of file f
HoldsExtractionOf(d, f) ==
  /\ MadeOf(d.administrativeData.producers,
            GetList(GetObject(ExtractionOf(f), "administrativeData"), "producers"))
  /\ MadeOf(d.administrativeData.responsiblePersons,
            GetList(GetObject(ExtractionOf(f), "administrativeData"),
                    "responsiblePersons"))
  /\ MadeOf(d.materials, GetList(ExtractionOf(f), "materials"))
  /\ MadeOf(d.properties, NewProperties(MergedProperties(ExtractionOf(f)), 1))

\* the step in which the second of two extractions returns, the other
\* having returned before
SecondReturns ==
  /\ uploads = MaxOverlap
  /\ payload # NULL
  /\ ExtractionResolves
  /\ pending' = {}

\* C29: when two uploads overlap, once both extractions have returned the
\* producers, persons, materials and properties of the document are those
\* of the file uploaded last, the one the viewer displays, in whatever
\* order the extractions return.
C29_LatestUploadWins ==
  [][SecondReturns => HoldsExtractionOf(drmdData', Displayed)]_vars

\* when the extraction of the displayed file returns last the document holds
\* its entities
C29_LastReturnWins ==
  [][(SecondReturns /\ pending = {Displayed})
       => HoldsExtractionOf(drmdData', Displayed)]_vars

-----------------------------------------------------------------------------
(* The processing flag.                                                    *)

\* C30: every upload that sets the processing flag eventually clears it,
\* whether the file read succeeds or fails and whether the extraction
\* succeeds or throws, and isProcessing is never false while an extraction
\* is in flight.
C30_ProcessingClears ==
  /\ isProcessing ~> ~isProcessing
  /\ [](pending # {} => isProcessing)

\* every extraction in flight returns, and the step in which an extraction
\* resolves or is rejected clears the flag
C30_SettledClears ==
  /\ (pending # {}) ~> (pending = {})
  /\ [][(ExtractionResolves \/ ExtractionRejects) => ~isProcessing']_vars

====
